---------------------------- MODULE Spec2Model ----------------------------
(***************************************************************************)
(* Companies House pipeline: paginated fetcher with retry/backoff           *)
(* (src/src/ch_requests.py), canonicalizer (src/src/normalize.py), dedup     *)
(* writer (src/src/bq_writer.py), diff detector (src/src/producer.py) and    *)
(* change consumer (src/src/subscriber.py).                                  *)
(*                                                                           *)
(* Durations are counted in half seconds, so that the detail fetch's base    *)
(* delay of 0.5 s is the integer 1 and the ceiling of 60 s is 120.           *)
(***************************************************************************)
EXTENDS Integers, Sequences, FiniteSets, Bags, TLC

VARIABLES
    \* ---- paginate_companies_house: one generator run
    pg_pc,               \* "request" | "yielded" (suspended at yield) | "done"
    start_index,         \* offset of the next request
    consecutive_errors,  \* the retry counter
    page,                \* pages yielded so far
    pg_sleep_sec,        \* parameter sleep_sec, in half seconds
    pg_max_retries,      \* parameter max_retries
    pg_requests,         \* log: <<[off, resp, n]>> one per requests.get
    pg_sleeps,           \* log: <<[kind, dur, after]>> one per time.sleep
    pg_yielded,          \* log: <<[off, n, req]>> one per yield
    pg_outcome,          \* what the consumer of the generator sees at the end
    \* ---- fetch_company_detail: one call
    fd_pc,               \* "idle" | "request" | "returned" | "raised"
    attempt,             \* the attempt counter
    fd_sleep_sec,        \* parameter sleep_sec, in half seconds
    fd_max_retries,      \* parameter max_retries
    fd_requests,         \* log: <<resp>> one per requests.get
    fd_sleeps,           \* log: <<[dur, after]>> one per time.sleep
    fd_result,           \* "none" | "record" | "absent"
    \* ---- the warehouse
    bq_exists,           \* the tables that exist
    bq_rows,             \* table name -> bag of rows
    \* ---- insert_rows_for_table: one call per writer
    wr,                  \* writer -> the call's locals and position
    wr_last,             \* the last finished call, when it was a clean one
    \* ---- normalize_record: calls on one source record as it changes
    nm_target,           \* argument table_name
    nm_raw,              \* argument raw_item
    nm_now,              \* the wall clock, datetime.utcnow()
    nm_edits,            \* changes made to the source record so far
    nm_row,              \* what the last call returned
    nm_prev_row,         \* what the call before it returned
    nm_raised,           \* whether the last call raised
    \* ---- DIFF_SQL: the last run of the diff query
    df_run,              \* the tables it read and the rows it returned
    \* ---- receive_pubsub_push: the push handler of the change consumer
    sb_pc,               \* "idle" | "fetch"
    sb_msg,              \* the change event of the delivery in progress
    sb_count,            \* deliveries taken so far
    sb_answer,           \* the handler's last answer
    \* ---- publish_messages: one run of the change publisher
    pb_pc,               \* "idle" | "loop" | "await" | "returned" | "raised"
    pb_limit,            \* limit: <<>> for None, <<n>> for the number n
    pb_rows,             \* the rows the diff query returned, in order
    pb_count,            \* count
    pb_channel,          \* the events handed to the channel, in order
    pb_result,           \* the value returned
    \* ---- index(): the index ingestion sweep, run up to twice
    ix,                  \* the locals of the endpoint and what it answered
    \* ---- subscriber_endpoint(): the /subscriber route of app.py
    ap                   \* the delivery it is given and what it answered

pgVars == <<pg_pc, start_index, consecutive_errors, page, pg_sleep_sec,
            pg_max_retries, pg_requests, pg_sleeps, pg_yielded, pg_outcome>>
fdVars == <<fd_pc, attempt, fd_sleep_sec, fd_max_retries, fd_requests,
            fd_sleeps, fd_result>>

pbVars == <<pb_pc, pb_limit, pb_rows, pb_count, pb_channel, pb_result>>
sbVars == <<sb_pc, sb_msg, sb_count, sb_answer>>
bqVars == <<bq_exists, bq_rows>>
wrVars == <<wr, wr_last>>
nmVars == <<nm_target, nm_raw, nm_now, nm_edits, nm_row, nm_prev_row, nm_raised>>

Min(a, b) == IF a <= b THEN a ELSE b

(***************************************************************************)
(* Bounds of the model.                                                      *)
(***************************************************************************)
\* requests one pagination run may issue
MaxRequests == 6
\* retry budgets tried, 1..MaxBudget (plus the defaults of the source)
MaxBudget == 3
\* rows one call of the writer is given
MaxRows == 3
\* bigquery batch_size and chunk_size, 500 in bq_writer.py, scaled down so
\* that a call of MaxRows rows needs more than one batch and one chunk
batch_size == 2
chunk_size == 2
\* changes made to a source record between calls of normalize_record
MaxEdits == 2
\* calls of normalize_record, one per tick of the clock
MaxClock == 3
\* rows of the index and of the detail table when the diff query runs
MaxIndexRows == 2
MaxDetailRows == 2
\* deliveries the push handler answers in one behaviour
MaxDeliveries == 2
\* the largest limit a publisher run is given
MaxLimit == 3
\* rows handed to one writer call of the pipeline
MaxCallRows == 2

(***************************************************************************)
(* Fetcher: paginate_companies_house                                         *)
(***************************************************************************)
\* items_per_page=100 (also what app.py passes)
items_per_page == 100
\* sleep_sec=1.0, in half seconds
pg_sleep_sec_default == 2
\* max_retries=5
pg_max_retries_default == 5
\* the ceiling of min(60, ...), in half seconds
BackoffCeiling == 120

\* page sizes the search API answers with: empty, short, full
PageSizes == {0, 37, items_per_page}
\* base delays tried: the default 1 s, and 40 s (capped from the second wait on)
PgSleepSecs == {pg_sleep_sec_default, 80}
PgBudgets == (1..MaxBudget) \cup {pg_max_retries_default}

\* wait = min(60, (2 ** consecutive_errors) * sleep_sec), the 429 branch
RateLimitWait_Flat(ce, s) == Min(BackoffCeiling, s)
RateLimitWait(ce, s) == Min(BackoffCeiling, (2 ^ ce) * s)

\* backoff = min(60, (2 ** consecutive_errors) * sleep_sec), the except branch
\* (ce is the counter after its increment)
ErrorBackoff(ce, s) == Min(BackoffCeiling, (2 ^ ce) * s)

\* if consecutive_errors >= max_retries, the except branch
PgBudgetExhausted(ce, budget) == ce >= budget

\* what the except branch does on an exhausted budget: break, so the
\* generator ends with an ordinary StopIteration
PgOnExhausted_Raise == "raise"
PgOnExhausted == "stop"

\* if len(items) < items_per_page: break
IsPartialPage_Never(n) == FALSE
IsPartialPage(n) == n < items_per_page

\* if not items: break
IsEmptyPage_Never(n) == FALSE
IsEmptyPage(n) == n = 0

\* consecutive_errors = 0, after a response that raise_for_status() accepts
ErrorsAfterSuccess_Kept(ce) == ce
ErrorsAfterSuccess(ce) == 0

\* time.sleep(sleep_sec), the polite delay after a full page
PoliteDelay_Doubled(s) == 2 * s
PoliteDelay(s) == s

\* start_index += len(items)
NextStartIndex_PageNumber(si, n) == si + 1
NextStartIndex(si, n) == si + n

PgInit ==
    /\ pg_pc = "request"
    /\ start_index = 0
    /\ consecutive_errors = 0
    /\ page = 0
    /\ pg_sleep_sec \in PgSleepSecs
    /\ pg_max_retries \in PgBudgets
    /\ pg_requests = <<>>
    /\ pg_sleeps = <<>>
    /\ pg_yielded = <<>>
    /\ pg_outcome = "running"

PgIdle ==
    /\ pg_pc = "done"
    /\ start_index = 0
    /\ consecutive_errors = 0
    /\ page = 0
    /\ pg_sleep_sec = pg_sleep_sec_default
    /\ pg_max_retries = pg_max_retries_default
    /\ pg_requests = <<>>
    /\ pg_sleeps = <<>>
    /\ pg_yielded = <<>>
    /\ pg_outcome = "stop"

PgCanRequest == pg_pc = "request" /\ Len(pg_requests) < MaxRequests

PgLogRequest(resp, n) ==
    pg_requests' = Append(pg_requests, [off |-> start_index, resp |-> resp, n |-> n])

PgLogSleep(kind, dur) ==
    pg_sleeps' = Append(pg_sleeps,
                        [kind |-> kind, dur |-> dur, after |-> Len(pg_requests')])

\* resp.status_code == 416: break
PgRangeEnd ==
    /\ PgCanRequest
    /\ PgLogRequest("416", 0)
    /\ pg_pc' = "done"
    /\ pg_outcome' = "stop"
    /\ UNCHANGED <<start_index, consecutive_errors, page, pg_sleep_sec,
                   pg_max_retries, pg_sleeps, pg_yielded>>

\* resp.status_code == 429: sleep, count, continue (no budget test here)
PgRateLimited ==
    /\ PgCanRequest
    /\ PgLogRequest("429", 0)
    /\ PgLogSleep("rate", RateLimitWait(consecutive_errors, pg_sleep_sec))
    /\ consecutive_errors' = consecutive_errors + 1
    /\ UNCHANGED <<pg_pc, start_index, page, pg_sleep_sec, pg_max_retries,
                   pg_yielded, pg_outcome>>

\* requests.RequestException: the request failed or raise_for_status() raised
PgTransientError ==
    /\ PgCanRequest
    /\ PgLogRequest("error", 0)
    /\ consecutive_errors' = consecutive_errors + 1
    /\ IF PgBudgetExhausted(consecutive_errors', pg_max_retries)
       THEN /\ pg_pc' = "done"
            /\ pg_outcome' = PgOnExhausted
            /\ UNCHANGED pg_sleeps
       ELSE /\ PgLogSleep("backoff", ErrorBackoff(consecutive_errors', pg_sleep_sec))
            /\ UNCHANGED <<pg_pc, pg_outcome>>
    /\ UNCHANGED <<start_index, page, pg_sleep_sec, pg_max_retries, pg_yielded>>

\* a 2xx answer with n items: reset the counter; empty page: break; else yield
PgSuccess(n) ==
    /\ PgCanRequest
    /\ PgLogRequest("ok", n)
    /\ consecutive_errors' = ErrorsAfterSuccess(consecutive_errors)
    /\ IF IsEmptyPage(n)
       THEN /\ pg_pc' = "done"
            /\ pg_outcome' = "stop"
            /\ UNCHANGED <<page, pg_yielded>>
       ELSE /\ pg_pc' = "yielded"
            /\ page' = page + 1
            /\ pg_yielded' = Append(pg_yielded,
                                    [off |-> start_index, n |-> n,
                                     req |-> Len(pg_requests')])
            /\ UNCHANGED pg_outcome
    /\ UNCHANGED <<start_index, pg_sleep_sec, pg_max_retries, pg_sleeps>>

\* the consumer asks for the next page: the code after the yield
PgResume ==
    /\ pg_pc = "yielded"
    /\ LET n == pg_yielded[Len(pg_yielded)].n IN
       /\ start_index' = NextStartIndex(start_index, n)
       /\ IF IsPartialPage(n)
          THEN /\ pg_pc' = "done"
               /\ pg_outcome' = "stop"
               /\ UNCHANGED pg_sleeps
          ELSE /\ pg_pc' = "request"
               /\ pg_sleeps' = Append(pg_sleeps,
                                      [kind |-> "polite", dur |-> PoliteDelay(pg_sleep_sec),
                                       after |-> Len(pg_requests)])
               /\ UNCHANGED pg_outcome
    /\ UNCHANGED <<consecutive_errors, page, pg_sleep_sec, pg_max_retries,
                   pg_requests, pg_yielded>>

PgNext ==
    \/ PgRangeEnd
    \/ PgRateLimited
    \/ PgTransientError
    \/ \E n \in PageSizes : PgSuccess(n)
    \/ PgResume

(***************************************************************************)
(* Fetcher: fetch_company_detail                                             *)
(***************************************************************************)
\* sleep_sec=0.5, in half seconds
fd_sleep_sec_default == 1
\* max_retries=3
fd_max_retries_default == 3

\* base delays tried: the default 0.5 s, 1 s, and 20 s
FdSleepSecs == {fd_sleep_sec_default, 2, 40}
FdBudgets == (1..MaxBudget) \cup {fd_max_retries_default}

\* wait = min(60, (2 ** attempt) * sleep_sec), both branches
FdWait(a, s) == Min(BackoffCeiling, (2 ^ a) * s)

\* if attempt >= max_retries, both branches
FdBudgetExhausted_OffByOne(a, budget) == a > budget
FdBudgetExhausted(a, budget) == a >= budget

FdCallWith(budget, sleep) ==
    /\ fd_pc' = "request"
    /\ attempt' = 0
    /\ fd_sleep_sec' = sleep
    /\ fd_max_retries' = budget
    /\ fd_requests' = <<>>
    /\ fd_sleeps' = <<>>
    /\ fd_result' = "none"

FdInit ==
    /\ fd_pc = "request"
    /\ attempt = 0
    /\ fd_sleep_sec \in FdSleepSecs
    /\ fd_max_retries \in FdBudgets
    /\ fd_requests = <<>>
    /\ fd_sleeps = <<>>
    /\ fd_result = "none"

FdIdle ==
    /\ fd_pc = "idle"
    /\ attempt = 0
    /\ fd_sleep_sec = fd_sleep_sec_default
    /\ fd_max_retries = fd_max_retries_default
    /\ fd_requests = <<>>
    /\ fd_sleeps = <<>>
    /\ fd_result = "none"

FdLogSleep(dur) ==
    fd_sleeps' = Append(fd_sleeps, [dur |-> dur, after |-> Len(fd_requests')])

FdNotFound_BacksOff ==
    /\ fd_pc = "request"
    /\ attempt' = attempt + 1
    /\ fd_requests' = Append(fd_requests, "404")
    /\ IF FdBudgetExhausted(attempt', fd_max_retries)
       THEN /\ fd_pc' = "raised"
            /\ UNCHANGED fd_sleeps
       ELSE /\ fd_pc' = "request"
            /\ FdLogSleep(FdWait(attempt', fd_sleep_sec))
    /\ UNCHANGED <<fd_sleep_sec, fd_max_retries, fd_result>>

\* resp.status_code == 404: return {}
FdNotFound ==
    /\ fd_pc = "request"
    /\ attempt' = attempt + 1
    /\ fd_requests' = Append(fd_requests, "404")
    /\ fd_pc' = "returned"
    /\ fd_result' = "absent"
    /\ UNCHANGED <<fd_sleep_sec, fd_max_retries, fd_sleeps>>

\* resp.status_code == 429: sleep, then on an exhausted budget
\* raise_for_status() raises into the except branch, which re-raises
FdRateLimited ==
    /\ fd_pc = "request"
    /\ attempt' = attempt + 1
    /\ fd_requests' = Append(fd_requests, "429")
    /\ FdLogSleep(FdWait(attempt', fd_sleep_sec))
    /\ fd_pc' = IF FdBudgetExhausted(attempt', fd_max_retries)
                THEN "raised" ELSE "request"
    /\ UNCHANGED <<fd_sleep_sec, fd_max_retries, fd_result>>

\* requests.RequestException: re-raise on an exhausted budget, else back off
FdTransientError ==
    /\ fd_pc = "request"
    /\ attempt' = attempt + 1
    /\ fd_requests' = Append(fd_requests, "error")
    /\ IF FdBudgetExhausted(attempt', fd_max_retries)
       THEN /\ fd_pc' = "raised"
            /\ UNCHANGED fd_sleeps
       ELSE /\ fd_pc' = "request"
            /\ FdLogSleep(FdWait(attempt', fd_sleep_sec))
    /\ UNCHANGED <<fd_sleep_sec, fd_max_retries, fd_result>>

\* a 2xx answer: return resp.json()
FdSuccess ==
    /\ fd_pc = "request"
    /\ attempt' = attempt + 1
    /\ fd_requests' = Append(fd_requests, "ok")
    /\ fd_pc' = "returned"
    /\ fd_result' = "record"
    /\ UNCHANGED <<fd_sleep_sec, fd_max_retries, fd_sleeps>>

FdNext ==
    \/ FdNotFound
    \/ FdRateLimited
    \/ FdTransientError
    \/ FdSuccess

(***************************************************************************)
(* Warehouse rows and tables                                                 *)
(***************************************************************************)
\* SQL NULL, Python None
NULL == "NULL"

\* TABLE_CONFIG.keys()
TableConfigKeys == {"company_index", "company_details"}

Sigs == {"s1", "s2", "s3"}

\* the columns of a row the writer, the diff and the consumer read; a
\* self-link is named by the company it points to
Row(cn, sig, isig, t) ==
    [company_number |-> cn, links_self |-> cn, row_signature |-> sig,
     index_row_signature |-> isig, date_indexed |-> t]

RECURSIVE SeqToBag(_)
SeqToBag(q) ==
    IF q = <<>> THEN EmptyBag
    ELSE SetToBag({Head(q)}) (+) SeqToBag(Tail(q))

SeqsUpTo(S, n) == UNION {[1..k -> S] : k \in 0..n}

Range(q) == {q[k] : k \in 1..Len(q)}

(***************************************************************************)
(* Dedup writer: insert_rows_for_table                                       *)
(***************************************************************************)
Writers == {1, 2}

\* signatures = [r.get("row_signature") for r in rows if r.get("row_signature")]
Signatures(rows) ==
    LET withSig == SelectSeq(rows, LAMBDA r : r.row_signature # NULL)
    IN [k \in 1..Len(withSig) |-> withSig[k].row_signature]

\* unique_signatures = list(dict.fromkeys(signatures)): first occurrences, in order
RECURSIVE UniqueSignatures(_)
UniqueSignatures(sigs) ==
    IF sigs = <<>> THEN <<>>
    ELSE LET front == UniqueSignatures(SubSeq(sigs, 1, Len(sigs) - 1))
             last == sigs[Len(sigs)]
         IN IF last \in Range(front) THEN front ELSE Append(front, last)

\* SELECT row_signature FROM table WHERE row_signature IN (chunk)
QuerySignatures(table, chunk) ==
    {r.row_signature : r \in {x \in BagToSet(table) : x.row_signature \in Range(chunk)}}

\* fetch_existing_signatures: one query per chunk of chunk_size signatures
FetchExistingSignatures_None(table, sigs) == {}
RECURSIVE FetchExistingSignatures(_, _)
FetchExistingSignatures(table, sigs) ==
    IF sigs = <<>> THEN {}
    ELSE LET n == Min(chunk_size, Len(sigs))
         IN QuerySignatures(table, SubSeq(sigs, 1, n))
              \cup FetchExistingSignatures(table, SubSeq(sigs, n + 1, Len(sigs)))

ToInsert_KeepsAll(rows, existing) == rows
\* to_insert = [r for r in rows if r.get("row_signature") not in existing]
ToInsert(rows, existing) ==
    SelectSeq(rows, LAMBDA r : r.row_signature \notin existing)

\* result["skipped"] = len(rows) - len(to_insert)
Skipped_DistinctSignatures(rows, to_insert) ==
    Cardinality({rows[k].row_signature : k \in 1..Len(rows)}
                   \ {to_insert[k].row_signature : k \in 1..Len(to_insert)})
Skipped(rows, to_insert) == Len(rows) - Len(to_insert)

\* bq.insert_rows_json(table_id, batch) without errors: a streaming insert
\* adds the rows of the batch to the table
Appended_Replaces(table, batch) == SeqToBag(batch)
Appended_IfAbsent(table, batch) ==
    table (+) SeqToBag(SelectSeq(batch, LAMBDA r :
                 \A x \in BagToSet(table) : x.row_signature # r.row_signature))
Appended(table, batch) == table (+) SeqToBag(batch)

\* batch = to_insert[i : i + batch_size]
Batch(to_insert, i) == SubSeq(to_insert, i + 1, Min(i + batch_size, Len(to_insert)))

\* if errors: result["errors"].extend(errors) else: result["inserted"] += len(batch)
InsertedAfter_CountsFailed(inserted, size, nerr) == inserted + size
InsertedAfter(inserted, size, nerr) ==
    IF nerr > 0 THEN inserted ELSE inserted + size

\* the for loop goes on to the next batch whatever the last one returned
AfterBatch_StopsOnError(i, n, nerr) ==
    IF nerr > 0 \/ i + batch_size >= n THEN "returned" ELSE "insert"
AfterBatch(i, n, nerr) ==
    IF i + batch_size >= n THEN "returned" ELSE "insert"

NoCall == [table_name |-> NULL, rows |-> <<>>]

WrIdleCall ==
    [pc |-> "idle", table_name |-> NULL, rows |-> <<>>, existing |-> {},
     to_insert |-> <<>>, i |-> 0,
     result |-> [inserted |-> 0, skipped |-> 0, errors |-> <<>>],
     batches |-> <<>>, pre |-> EmptyBag, repeat |-> FALSE]

\* rows the writer is given in the writer's own specification
WrRowSet == {Row("A", sig, NULL, 0) : sig \in Sigs}
WrInputs == SeqsUpTo(WrRowSet, MaxRows)
WrTableNames == {"company_index", "no_such_table"}

BqInit ==
    /\ bq_exists = {}
    /\ bq_rows = [t \in TableConfigKeys |-> EmptyBag]

WrInit ==
    /\ wr = [p \in Writers |-> WrIdleCall]
    /\ wr_last = NoCall

DistinctSignatures(rows) ==
    /\ \A k \in 1..Len(rows) : rows[k].row_signature # NULL
    /\ \A j, k \in 1..Len(rows) :
          rows[j].row_signature = rows[k].row_signature => j = k

NonePresent(rows, table) ==
    \A r \in BagToSet(table) :
       \A k \in 1..Len(rows) : r.row_signature # rows[k].row_signature

\* the call that just finished wrote all its rows, pairwise distinct in their
\* signatures, into a table that held none of them
WrClean(c) ==
    /\ c.pc = "returned"
    /\ c.rows # <<>>
    /\ DistinctSignatures(c.rows)
    /\ NonePresent(c.rows, c.pre)
    /\ c.result.errors = <<>>

\* if table_name not in TABLE_CONFIG: raise ValueError
WrOnUnknownTable_ReturnsEmpty == "returned"
WrOnUnknownTable == "raised"

\* insert_rows_for_table(table_name, rows) up to the existence query:
\* the TABLE_CONFIG test and ensure_table_exists
WrCall(p, t, rows) ==
    /\ wr[p].pc = "idle"
    /\ IF t \notin TableConfigKeys
       THEN /\ wr' = [wr EXCEPT ![p] = [WrIdleCall EXCEPT !.pc = WrOnUnknownTable,
                                                          !.table_name = t,
                                                          !.rows = rows]]
            /\ UNCHANGED bqVars
       ELSE /\ bq_exists' = bq_exists \cup {t}
            /\ wr' = [wr EXCEPT ![p] =
                        [WrIdleCall EXCEPT !.pc = "check",
                                           !.table_name = t,
                                           !.rows = rows,
                                           !.pre = bq_rows[t],
                                           !.repeat = (wr_last = [table_name |-> t,
                                                                  rows |-> rows])]]
            /\ UNCHANGED bq_rows
    /\ UNCHANGED wr_last

\* the existence query, the partition into new rows and duplicates, and the
\* early return when nothing is new
WrCheck(p) ==
    /\ wr[p].pc = "check"
    /\ LET c == wr[p]
           existing == FetchExistingSignatures(bq_rows[c.table_name],
                                               UniqueSignatures(Signatures(c.rows)))
           to_insert == ToInsert(c.rows, existing)
       IN wr' = [wr EXCEPT ![p] =
                   [c EXCEPT !.existing = existing,
                             !.to_insert = to_insert,
                             !.result.skipped = Skipped(c.rows, to_insert),
                             !.pc = IF to_insert = <<>> THEN "returned" ELSE "insert"]]
    /\ UNCHANGED <<bqVars, wr_last>>

\* one pass of the batch loop; nerr is the length of the error list that
\* insert_rows_json returns (0: the batch was written)
WrInsertBatch(p, nerr) ==
    /\ wr[p].pc = "insert"
    /\ LET c == wr[p]
           batch == Batch(c.to_insert, c.i)
       IN /\ nerr <= Len(batch)
          /\ bq_rows' = IF nerr > 0 THEN bq_rows
                        ELSE [bq_rows EXCEPT ![c.table_name] = Appended(@, batch)]
          /\ wr' = [wr EXCEPT ![p] =
                      [c EXCEPT !.result.inserted = InsertedAfter(@, Len(batch), nerr),
                                !.result.errors = @ \o [k \in 1..nerr |-> c.i],
                                !.batches = Append(@, [size |-> Len(batch),
                                                       ok |-> nerr = 0]),
                                !.i = c.i + batch_size,
                                !.pc = AfterBatch(c.i, Len(c.to_insert), nerr)]]
    /\ UNCHANGED <<bq_exists, wr_last>>

\* the caller takes the result (or the exception)
WrReturn(p) ==
    /\ wr[p].pc \in {"returned", "raised"}
    /\ wr_last' = IF WrClean(wr[p])
                  THEN [table_name |-> wr[p].table_name, rows |-> wr[p].rows]
                  ELSE NoCall
    /\ wr' = [wr EXCEPT ![p] = WrIdleCall]
    /\ UNCHANGED bqVars

(***************************************************************************)
(* Canonicalizer: normalize.py                                               *)
(*                                                                           *)
(* A Python value is a record [k, v]: None, a str (a sequence of             *)
(* characters), a list of str, or a dict (a function from keys to values).   *)
(* A character is a one-letter string or an opaque lower-case token.         *)
(***************************************************************************)
None == [k |-> "none", v |-> <<>>]
Str(chars) == [k |-> "str", v |-> chars]
List(strs) == [k |-> "list", v |-> strs]
Dict(d) == [k |-> "dict", v |-> d]

\* dict.get(key): None when the key is missing
Get(d, key) == IF key \in DOMAIN d THEN d[key] ELSE None

\* Python truthiness of the values above
Truthy(x) ==
    CASE x.k = "none" -> FALSE
      [] x.k = "dict" -> DOMAIN x.v # {}
      [] OTHER -> x.v # <<>>

\* str.lower()
LowerChar(c) == IF c = "A" THEN "a" ELSE IF c = "B" THEN "b" ELSE c
Lower(chars) == [i \in 1..Len(chars) |-> LowerChar(chars[i])]

\* str.strip()
RECURSIVE Strip(_)
Strip(chars) ==
    IF chars = <<>> THEN <<>>
    ELSE IF Head(chars) = " " THEN Strip(Tail(chars))
    ELSE IF chars[Len(chars)] = " " THEN Strip(SubSeq(chars, 1, Len(chars) - 1))
    ELSE chars

\* sep.join(parts)
RECURSIVE Join(_, _)
Join(sep, parts) ==
    IF parts = <<>> THEN <<>>
    ELSE IF Len(parts) = 1 THEN parts[1]
    ELSE parts[1] \o sep \o Join(sep, Tail(parts))

\* canonicalize_value(v)
canonicalize_value(x) ==
    CASE x.k = "none" -> <<>>
      [] x.k = "list" -> Join(<<"|">>, [i \in 1..Len(x.v) |-> Lower(Strip(x.v[i]))])
      [] OTHER -> Lower(Strip(x.v))

\* hashlib.sha256(text).hexdigest(): a digest stands for the one text it was
\* computed from
sha256(text) == <<"sha256:">> \o text

\* make_signature(item, keys)
make_signature_Stamped(item, keys) ==
    sha256(Join(<<"|", "|">>,
                [i \in 1..Len(keys) + 1 |->
                    canonicalize_value(Get(item, Append(keys, "date_indexed")[i]))]))
make_signature(item, keys) ==
    sha256(Join(<<"|", "|">>, [i \in 1..Len(keys) |-> canonicalize_value(Get(item, keys[i]))]))

\* dateparser.parse(raw).date().isoformat() for the date strings of the model;
\* None is the except branch
ParseDate(chars) ==
    CASE chars \in {<<"2020-01-02">>, <<"2 Jan 2020">>} -> Str(<<"2020-01-02">>)
      [] chars = <<"1999-12-31">> -> Str(<<"1999-12-31">>)
      [] OTHER -> None

\* safe_date_iso(raw)
safe_date_iso(x) ==
    IF ~Truthy(x) THEN None
    ELSE IF x.k = "str" THEN ParseDate(x.v)
    ELSE None

\* json.dumps(value) of a dict or a list: one opaque text per value
json_dumps(x) == Str(<<"json", x>>)

\* _coerce_for_schema(field_name, value)
coerce_for_schema(x) ==
    CASE x.k = "list" -> Str(Join(<<";">>, x.v))
      [] x.k = "dict" -> json_dumps(x)
      [] OTHER -> x

NoParent == "-"

\* schema.py: COMPANY_INDEX_NORMALIZE_MAP and COMPANY_DETAILS_NORMALIZE_MAP,
\* cut down to one field of every shape (plain, nested, date, list, _json,
\* signature key or not); the target field -> <<source key, parent key>>
NormalizeMap(t) ==
    IF t = "company_index"
    THEN [company_number |-> <<"company_number", NoParent>>,
          title |-> <<"title", NoParent>>,
          address_line_1 |-> <<"address_line_1", "address">>,
          links_self |-> <<"self", "links">>,
          date_of_creation |-> <<"date_of_creation", NoParent>>]
    ELSE [company_number |-> <<"company_number", NoParent>>,
          company_name |-> <<"company_name", NoParent>>,
          date_of_creation |-> <<"date_of_creation", NoParent>>,
          registered_address_line_1 |-> <<"address_line_1", "registered_office_address">>,
          sic_codes |-> <<"sic_codes", NoParent>>,
          accounts_json |-> <<"accounts", NoParent>>]

\* schema.py: COMPANY_INDEX_SIGNATURE_KEYS and COMPANY_DETAILS_SIGNATURE_KEYS,
\* the keys of the fields kept above, in the order of the source
SignatureKeys(t) ==
    IF t = "company_index"
    THEN <<"company_number", "title", "address_line_1">>
    ELSE <<"company_number", "company_name", "date_of_creation",
           "registered_address_line_1">>

\* field.startswith("date_") and field.endswith("_json") over the fields above
DateFields == {"date_of_creation"}
JsonFields == {"accounts_json"}

\* the value a (path, parent) descriptor resolves to in raw_item
SourceValue(raw, desc) ==
    IF desc[2] # NoParent
    THEN LET got == Get(raw, desc[2])
             parent_obj == IF Truthy(got) THEN got ELSE Dict(<<>>)
         IN IF parent_obj.k = "dict" THEN Get(parent_obj.v, desc[1]) ELSE None
    ELSE Get(raw, desc[1])

\* the loop body of normalize_record for one field
FieldValue(field, value) ==
    IF field \in DateFields THEN safe_date_iso(value)
    ELSE IF field \in JsonFields /\ value # None THEN json_dumps(value)
    ELSE coerce_for_schema(value)

\* normalize_record(table_name, raw_item) for a table_name of TABLE_CONFIG,
\* called when the clock shows now
normalize_record(t, raw, now) ==
    LET map == NormalizeMap(t)
        fields == [f \in DOMAIN map |-> FieldValue(f, SourceValue(raw, map[f]))]
        housekeeping == [f \in (DOMAIN map) \cup {"date_indexed", "raw_json"} |->
                           IF f = "date_indexed" THEN Str(<<"utc", ToString(now)>>)
                           ELSE IF f = "raw_json" THEN Str(<<"json", raw>>)
                           ELSE fields[f]]
    IN [f \in (DOMAIN housekeeping) \cup {"row_signature"} |->
           IF f = "row_signature"
           THEN Str(make_signature(housekeeping, SignatureKeys(t)))
           ELSE housekeeping[f]]

\* def normalize_record(table_name, raw_item): the parameters a call may name
normalize_record_params == {"table_name", "raw_item"}

\* ---- the source records the model normalizes
NmTargets == TableConfigKeys \cup {"no_such_table"}

StrChoices == {None, Str(<<"a">>), Str(<<" ", "A">>), Str(<<"b">>)}
DateChoices == {None, Str(<<"2020-01-02">>), Str(<<"2 Jan 2020">>), Str(<<"n/a">>)}
AddressChoices ==
    {None, Str(<<"a">>),
     Dict([address_line_1 |-> Str(<<"a">>), region |-> Str(<<"x">>)]),
     Dict([address_line_1 |-> Str(<<"a">>), region |-> Str(<<"y">>)]),
     Dict([address_line_1 |-> Str(<<"b">>), region |-> Str(<<"x">>)])}
LinksChoices == {None, Dict([self |-> Str(<<"/company/a">>)])}
ListChoices == {None, List(<< <<"a">>, <<"b">> >>), List(<< <<"b">> >>)}
AccountsChoices == {None, Dict([next_due |-> Str(<<"2020-01-02">>)])}

RawChoices(t) ==
    IF t = "company_index"
    THEN [company_number |-> StrChoices, title |-> StrChoices,
          address |-> AddressChoices, links |-> LinksChoices,
          date_of_creation |-> DateChoices, description |-> StrChoices]
    ELSE [company_number |-> StrChoices, company_name |-> StrChoices,
          registered_office_address |-> AddressChoices,
          date_of_creation |-> DateChoices, sic_codes |-> ListChoices,
          accounts |-> AccountsChoices, etag |-> StrChoices]

RawStart(t) ==
    IF t = "company_index"
    THEN [company_number |-> Str(<<"a">>), title |-> Str(<<"b">>),
          address |-> Dict([address_line_1 |-> Str(<<"a">>), region |-> Str(<<"x">>)]),
          links |-> Dict([self |-> Str(<<"/company/a">>)]),
          date_of_creation |-> Str(<<"2020-01-02">>), description |-> None]
    ELSE [company_number |-> Str(<<"a">>), company_name |-> Str(<<"b">>),
          registered_office_address |->
              Dict([address_line_1 |-> Str(<<"a">>), region |-> Str(<<"x">>)]),
          date_of_creation |-> Str(<<"2020-01-02">>),
          sic_codes |-> List(<< <<"a">>, <<"b">> >>),
          accounts |-> None, etag |-> Str(<<"a">>)]

NoRow == [row_signature |-> None]

NmInit ==
    /\ nm_target \in NmTargets
    /\ nm_raw = RawStart(nm_target)
    /\ nm_now = 0
    /\ nm_edits = 0
    /\ nm_row = NoRow
    /\ nm_prev_row = NoRow
    /\ nm_raised = FALSE

NmIdle ==
    /\ nm_target = "company_index"
    /\ nm_raw = RawStart("company_index")
    /\ nm_now = 0
    /\ nm_edits = 0
    /\ nm_row = NoRow
    /\ nm_prev_row = NoRow
    /\ nm_raised = FALSE

\* the registry changes one member of the source record
NmEdit(key, value) ==
    /\ nm_edits < MaxEdits
    /\ key \in DOMAIN nm_raw
    /\ value \in RawChoices(nm_target)[key]
    /\ value # nm_raw[key]
    /\ nm_raw' = [nm_raw EXCEPT ![key] = value]
    /\ nm_edits' = nm_edits + 1
    /\ UNCHANGED <<nm_target, nm_now, nm_row, nm_prev_row, nm_raised>>

\* normalize_record(nm_target, nm_raw): ValueError for an unknown table name
NmNormalize ==
    /\ nm_now < MaxClock
    /\ nm_now' = nm_now + 1
    /\ IF nm_target \notin TableConfigKeys
       THEN /\ nm_raised' = TRUE
            /\ UNCHANGED <<nm_row, nm_prev_row>>
       ELSE /\ nm_raised' = FALSE
            /\ nm_row' = normalize_record(nm_target, nm_raw, nm_now)
            /\ nm_prev_row' = nm_row
    /\ UNCHANGED <<nm_target, nm_raw, nm_edits>>

(***************************************************************************)
(* Diff detector: DIFF_SQL                                                   *)
(***************************************************************************)
\* the d side of a LEFT JOIN row whose index row matched no detail row
NullDetail == Row(NULL, NULL, NULL, 0)

\* ON i.company_number = d.company_number (never true of a NULL)
JoinOn(i, d) ==
    /\ i.company_number # NULL
    /\ d.company_number # NULL
    /\ i.company_number = d.company_number

\* WHERE d.details_index_sig IS NULL OR d.details_index_sig != i.index_row_signature
\* (a comparison with NULL is not true)
DiffWhere_NoIsNull(i, d) ==
    /\ d.index_row_signature # NULL
    /\ i.row_signature # NULL
    /\ d.index_row_signature # i.row_signature
DiffWhere(i, d) ==
    \/ d.index_row_signature = NULL
    \/ /\ i.row_signature # NULL
       /\ d.index_row_signature # i.row_signature

\* idx i LEFT JOIN det d: the joined rows <<i, d>> and how often each occurs
LeftJoin(idx, det) ==
    LET matched == {<<i, d>> \in BagToSet(idx) \X BagToSet(det) : JoinOn(i, d)}
        alone == {<<i, NullDetail>> : i \in {x \in BagToSet(idx) :
                                                \A d \in BagToSet(det) : ~JoinOn(x, d)}}
    IN [j \in matched \cup alone |->
           IF j \in matched THEN idx[j[1]] * det[j[2]] ELSE idx[j[1]]]

\* SELECT i.company_number, i.links_self, i.index_row_signature, i.date_indexed
DiffSelect(i) ==
    [company_number |-> i.company_number, links_self |-> i.links_self,
     index_row_signature |-> i.row_signature, date_indexed |-> i.date_indexed]

RECURSIVE SumOver(_, _)
SumOver(f, S) ==
    IF S = {} THEN 0
    ELSE LET x == CHOOSE y \in S : TRUE IN f[x] + SumOver(f, S \ {x})

\* the rows DIFF_SQL returns, as a bag (before ORDER BY)
DiffRows(idx, det) ==
    LET joined == LeftJoin(idx, det)
        kept == {j \in DOMAIN joined : DiffWhere(j[1], j[2])}
        out == {DiffSelect(j[1]) : j \in kept}
    IN [e \in out |-> SumOver(joined, {j \in kept : DiffSelect(j[1]) = e})]

\* DESC: row e may be returned before row x
DateDesc_Asc(e, x) == x.date_indexed >= e.date_indexed
DateDesc(e, x) == x.date_indexed <= e.date_indexed

\* ORDER BY i.date_indexed DESC: every order of a bag of rows that has no row
\* before one of a later date_indexed
RECURSIVE OrderByDateDesc(_)
OrderByDateDesc(bag) ==
    IF BagToSet(bag) = {} THEN {<<>>}
    ELSE LET first == {e \in BagToSet(bag) :
                          \A x \in BagToSet(bag) : DateDesc(e, x)}
         IN UNION {{<<e>> \o rest : rest \in OrderByDateDesc(bag (-) SetToBag({e}))} :
                      e \in first}

NoRun == [ran |-> FALSE, raised |-> FALSE, index |-> EmptyBag,
          details |-> EmptyBag, events |-> <<>>]

DfInit == df_run = NoRun

\* the rows the two tables may hold when the diff query runs
IndexSigsOf(cn) == IF cn = "A" THEN {"s1", "s2"} ELSE {"s3"}
DfIndexRows ==
    UNION {{Row(cn, sig, NULL, t) : sig \in IndexSigsOf(cn), t \in {1, 2}} :
              cn \in {"A", "B"}}
DfDetailRows ==
    UNION {{Row(cn, "d", isig, 3) : isig \in IndexSigsOf(cn) \cup {NULL}} :
              cn \in {"A", "B"}}

\* another run of the pipeline stored an index row
DfIndexAppend(r) ==
    /\ BagCardinality(bq_rows["company_index"]) < MaxIndexRows
    /\ bq_rows' = [bq_rows EXCEPT !["company_index"] = @ (+) SetToBag({r})]
    /\ bq_exists' = bq_exists \cup {"company_index"}
    /\ UNCHANGED df_run

\* another run of the pipeline stored a detail row
DfDetailAppend(r) ==
    /\ BagCardinality(bq_rows["company_details"]) < MaxDetailRows
    /\ bq_rows' = [bq_rows EXCEPT !["company_details"] = @ (+) SetToBag({r})]
    /\ bq_exists' = bq_exists \cup {"company_details"}
    /\ UNCHANGED df_run

\* bq.query(DIFF_SQL).result(): the query fails when a table is missing
DfRun ==
    /\ IF TableConfigKeys \subseteq bq_exists
       THEN \E es \in OrderByDateDesc(DiffRows(bq_rows["company_index"],
                                               bq_rows["company_details"])) :
               df_run' = [ran |-> TRUE, raised |-> FALSE,
                          index |-> bq_rows["company_index"],
                          details |-> bq_rows["company_details"],
                          events |-> es]
       ELSE df_run' = [NoRun EXCEPT !.ran = TRUE, !.raised = TRUE]
    /\ UNCHANGED bqVars

(***************************************************************************)
(* Change consumer: receive_pubsub_push                                      *)
(***************************************************************************)
\* the change events a push delivery may carry
SbEvents ==
    {[company_number |-> i.company_number, links_self |-> i.links_self,
      index_row_signature |-> i.row_signature] : i \in DfIndexRows}

NoMsg == [company_number |-> NULL, links_self |-> NULL, index_row_signature |-> NULL]

\* is_up_to_date: SELECT index_row_signature ... WHERE company_number = @company_number
\* LIMIT 1, then existing == index_sig; without ORDER BY any matching row
\* may be the one returned
IsUpToDate(company_number, index_sig, details) ==
    LET rows == {r \in BagToSet(details) : r.company_number = company_number}
    IN IF company_number = NULL \/ rows = {} THEN {FALSE}
       ELSE {r.index_row_signature = index_sig : r \in rows}

\* normalize_record("company_details", detail_json, extra_fields={...}):
\* the keyword arguments of the call that the function does not declare
SbNormalizeKeywords == {"extra_fields"}
UnexpectedKeywords == SbNormalizeKeywords \ normalize_record_params

\* the detail row of a fetched record for the event, indexed after the rows
\* other runs stored
SbDetailRow(msg) == Row(msg.company_number, "d", msg.index_row_signature, 4)

\* insert_rows_for_table("company_details", [normalized]) for one row
SbInsert(row, table, nerr) ==
    LET existing == FetchExistingSignatures(table, UniqueSignatures(Signatures(<<row>>)))
        to_insert == ToInsert(<<row>>, existing)
    IN [table |-> IF to_insert # <<>> /\ nerr = 0
                  THEN table (+) SetToBag({row}) ELSE table,
        inserted |-> InsertedAfter(0, Len(to_insert), nerr),
        errors |-> IF to_insert # <<>> THEN nerr ELSE 0]

\* the handler's answers: ("", 200), (..., 500), ("Bad Request: ...", 400)
SbAck == 200
SbRetry == 500
SbBadRequest == 400

\* except Exception as e: return (jsonify(...), 500)
SbOnException_Acks == SbAck
SbOnException == SbRetry

\* if res.get("errors"): return (jsonify(...), 500)
SbOnErrors == SbRetry

\* an exception outside the handler's try blocks: the framework answers 500
SbUnhandled == SbRetry

\* if not detail_json
NoDetail_Never(result) == FALSE
NoDetail(result) == result = "absent"

\* a delivery's body: what request.get_json gives, its "message" member, the
\* member's "data", and the JSON object the data encodes when it encodes one
Envelope(body, message, data, payload) ==
    [body |-> body, message |-> message, data |-> data, payload |-> payload]

SbWellFormed == {Envelope("object", "object", "object", e) : e \in SbEvents}

SbMalformed ==
    {Envelope("none", "missing", "missing", NoMsg),
     Envelope("array", "missing", "missing", NoMsg),
     Envelope("object", "missing", "missing", NoMsg),
     Envelope("object", "string", "missing", NoMsg),
     Envelope("object", "object", "missing", NoMsg),
     Envelope("object", "object", "not_base64", NoMsg),
     Envelope("object", "object", "not_json", NoMsg),
     Envelope("object", "object", "array", NoMsg),
     Envelope("object", "object", "object", NoMsg)}

SbEnvelopes == SbWellFormed \cup SbMalformed

\* the handler up to the three data_json.get calls: a 400, an AttributeError
\* from calling .get on a value that is not a dict, or the event's fields
SbDecode(env) ==
    LET is(kind) == [kind |-> kind, msg |-> NoMsg]
    IN IF env.body = "none" THEN is("bad_request")
       ELSE IF env.body # "object" THEN is("AttributeError")
       ELSE IF env.message = "missing" THEN is("bad_request")
       ELSE IF env.message # "object" THEN is("AttributeError")
       ELSE IF env.data = "missing" THEN is("event")
       ELSE IF env.data \in {"not_base64", "not_json"} THEN is("bad_request")
       ELSE IF env.data # "object" THEN is("AttributeError")
       ELSE [kind |-> "event", msg |-> env.payload]

NoAnswer == [event |-> NoMsg, status |-> 0, outcome |-> "none",
             requests |-> 0, inserted |-> 0]

SbInit ==
    /\ sb_pc = "idle"
    /\ sb_msg = NoMsg
    /\ sb_count = 0
    /\ sb_answer = NoAnswer

\* the handler answers: the status, what led to it, the detail requests made
\* and the rows written for the delivery
SbAnswer(msg, status, outcome, requests, inserted) ==
    sb_answer' = [event |-> msg, status |-> status, outcome |-> outcome,
                  requests |-> requests, inserted |-> inserted]

FdReset ==
    /\ fd_pc' = "idle"
    /\ attempt' = 0
    /\ fd_sleep_sec' = fd_sleep_sec_default
    /\ fd_max_retries' = fd_max_retries_default
    /\ fd_requests' = <<>>
    /\ fd_sleeps' = <<>>
    /\ fd_result' = "none"

\* a push delivery arrives: the envelope is decoded and is_up_to_date runs
\* (no query without a company_number; the query raises when the detail
\* table is missing); fetch_company_detail is called when it says no
SbDeliver(env) ==
    /\ sb_pc = "idle"
    /\ sb_count < MaxDeliveries
    /\ sb_count' = sb_count + 1
    /\ UNCHANGED bqVars
    /\ LET dec == SbDecode(env)
           msg == dec.msg
           details == bq_rows["company_details"]
       IN IF dec.kind = "bad_request"
          THEN /\ SbAnswer(msg, SbBadRequest, "bad_request", 0, 0)
               /\ UNCHANGED <<sb_pc, sb_msg, fdVars>>
          ELSE IF dec.kind = "AttributeError"
          THEN /\ SbAnswer(msg, SbUnhandled, "AttributeError", 0, 0)
               /\ UNCHANGED <<sb_pc, sb_msg, fdVars>>
          ELSE IF msg.company_number # NULL /\ "company_details" \notin bq_exists
          THEN /\ SbAnswer(msg, SbOnException, "query_failed", 0, 0)
               /\ UNCHANGED <<sb_pc, sb_msg, fdVars>>
          ELSE \E up \in IsUpToDate(msg.company_number, msg.index_row_signature,
                                    details) :
                  IF up
                  THEN /\ SbAnswer(msg, SbAck, "up_to_date", 0, 0)
                       /\ UNCHANGED <<sb_pc, sb_msg, fdVars>>
                  ELSE /\ sb_pc' = "fetch"
                       /\ sb_msg' = msg
                       /\ FdCallWith(fd_max_retries_default, fd_sleep_sec_default)
                       /\ UNCHANGED sb_answer

\* one request of fetch_company_detail(company_number)
SbFetchStep ==
    /\ sb_pc = "fetch"
    /\ FdNext
    /\ UNCHANGED <<bqVars, sbVars, pbVars>>

\* fetch_company_detail is over: the rest of the handler
SbFinish ==
    /\ sb_pc = "fetch"
    /\ fd_pc \in {"returned", "raised"}
    /\ sb_pc' = "idle"
    /\ sb_msg' = NoMsg
    /\ UNCHANGED sb_count
    /\ FdReset
    /\ IF fd_pc = "raised"
       THEN /\ UNCHANGED bqVars
            /\ SbAnswer(sb_msg, SbOnException, "fetch_raised", Len(fd_requests), 0)
       ELSE IF NoDetail(fd_result)
       THEN /\ UNCHANGED bqVars
            /\ SbAnswer(sb_msg, SbAck, "absent", Len(fd_requests), 0)
       ELSE IF UnexpectedKeywords # {}
       THEN \* TypeError: unexpected keyword argument, caught by except Exception
            /\ UNCHANGED bqVars
            /\ SbAnswer(sb_msg, SbOnException, "TypeError", Len(fd_requests), 0)
       ELSE \E nerr \in {0, 1} :
               LET res == SbInsert(SbDetailRow(sb_msg), bq_rows["company_details"], nerr)
               IN /\ bq_rows' = [bq_rows EXCEPT !["company_details"] = res.table]
                  /\ UNCHANGED bq_exists
                  /\ SbAnswer(sb_msg, IF res.errors > 0 THEN SbOnErrors ELSE SbAck,
                              IF res.errors > 0 THEN "insert_errors" ELSE "written",
                              Len(fd_requests), res.inserted)

SbIdle == SbInit

(***************************************************************************)
(* Change publisher: publish_messages                                        *)
(***************************************************************************)
\* limit: None or a number
PbLimits == {<<>>} \cup {<<n>> : n \in 0..MaxLimit}

\* row.date_indexed.isoformat()
IsoFormat(t) == <<"iso", ToString(t)>>

\* payload = {...}: the event of a diff row
Payload(row) ==
    [company_number |-> row.company_number, links_self |-> row.links_self,
     index_row_signature |-> row.index_row_signature,
     date_indexed |-> IsoFormat(row.date_indexed)]

\* if limit and count >= int(limit): break
LimitReached(limit, count) ==
    /\ limit # <<>>
    /\ limit[1] # 0
    /\ count >= limit[1]

\* future.result() raises: nothing in publish_messages catches it
PbOnFailure_Continues == "loop"
PbOnFailure == "raised"

\* future = publisher.publish(TOPIC, data); future.result()
PbAfterPublish_NoWait == "loop"
PbAfterPublish == "await"

PbInit ==
    /\ pb_pc = "idle"
    /\ pb_limit = <<>>
    /\ pb_rows = <<>>
    /\ pb_count = 0
    /\ pb_channel = <<>>
    /\ pb_result = 0

PbIdle == PbInit

\* publish_messages(limit): the diff query; it raises when a table is missing
PbCall(limit) ==
    /\ pb_pc = "idle"
    /\ pb_limit' = limit
    /\ IF TableConfigKeys \subseteq bq_exists
       THEN /\ pb_pc' = "loop"
            /\ pb_rows' \in OrderByDateDesc(DiffRows(bq_rows["company_index"],
                                                    bq_rows["company_details"]))
       ELSE /\ pb_pc' = "raised"
            /\ pb_rows' = <<>>
    /\ UNCHANGED <<pb_count, pb_channel, pb_result, bqVars>>

\* for row in it: the next row's event is handed to the channel; return count
\* when the rows are exhausted
PbPublish ==
    /\ pb_pc = "loop"
    /\ IF Len(pb_channel) = Len(pb_rows)
       THEN /\ pb_pc' = "returned"
            /\ pb_result' = pb_count
            /\ UNCHANGED pb_channel
       ELSE /\ pb_pc' = PbAfterPublish
            /\ pb_channel' = Append(pb_channel,
                                    [event |-> Payload(pb_rows[Len(pb_channel) + 1]),
                                     state |-> "pending"])
            /\ UNCHANGED pb_result
    /\ UNCHANGED <<pb_limit, pb_rows, pb_count, bqVars>>

\* future.result() returns: count += 1, then the limit test
PbConfirm ==
    /\ pb_pc = "await"
    /\ pb_channel' = [pb_channel EXCEPT ![Len(pb_channel)].state = "confirmed"]
    /\ pb_count' = pb_count + 1
    /\ IF LimitReached(pb_limit, pb_count')
       THEN /\ pb_pc' = "returned"
            /\ pb_result' = pb_count'
       ELSE /\ pb_pc' = "loop"
            /\ UNCHANGED pb_result
    /\ UNCHANGED <<pb_limit, pb_rows, bqVars>>

\* future.result() raises: the channel did not confirm the event
PbFail ==
    /\ pb_pc = "await"
    /\ pb_channel' = [pb_channel EXCEPT ![Len(pb_channel)].state = "failed"]
    /\ pb_pc' = PbOnFailure
    /\ UNCHANGED <<pb_limit, pb_rows, pb_count, pb_result, bqVars>>

(***************************************************************************)
(* Index ingestion sweep: index() of app.py                                  *)
(***************************************************************************)
\* the registry behind the search API: how many companies match the query,
\* and the search items the model follows, by their offset in the results
IxOffsets == {0, 36, 100}
IxTotals == {37, 100, 137}
IxItemA == RawStart("company_index")
IxItemB == [RawStart("company_index") EXCEPT !.company_number = Str(<<"b">>)]
IxItemC == [RawStart("company_index") EXCEPT !.title = Str(<<"a">>)]
\* all different; the same company twice in one page; the same company in
\* two pages
IxRegistries ==
    {[k \in IxOffsets |-> IF k = 0 THEN IxItemA ELSE IF k = 36 THEN IxItemB ELSE IxItemC],
     [k \in IxOffsets |-> IF k = 100 THEN IxItemB ELSE IxItemA],
     [k \in IxOffsets |-> IF k = 36 THEN IxItemB ELSE IxItemA]}
IxSources == [total : IxTotals, items : IxRegistries]

\* the size of the page the search API answers with for start_index = off
PageSizeAt(source, off) ==
    IF off >= source.total THEN 0 ELSE Min(items_per_page, source.total - off)

\* the followed items of the page at offset off, in the order of the page
RECURSIVE ItemsFrom(_, _, _)
ItemsFrom(source, off, n) ==
    IF n <= 0 THEN <<>>
    ELSE LET lower == {k \in IxOffsets : k >= off /\ k < off + n} IN
         IF lower = {} THEN <<>>
         ELSE LET k == CHOOSE x \in lower : \A y \in lower : x <= y
              IN <<source.items[k]>> \o ItemsFrom(source, k + 1, off + n - (k + 1))

\* a normalized row as the warehouse stores it: the columns the pipeline
\* reads back, the digest as the text it is printed as
IxRow_SignsTimestamp(raw, now) ==
    LET n == normalize_record("company_index", raw, now)
    IN [company_number |-> ToString(n.company_number.v),
        links_self |-> ToString(n.links_self.v),
        row_signature |-> ToString(<<n.row_signature.v, n.date_indexed.v>>),
        index_row_signature |-> NULL,
        date_indexed |-> now]
IxRow(raw, now) ==
    LET n == normalize_record("company_index", raw, now)
    IN [company_number |-> ToString(n.company_number.v),
        links_self |-> ToString(n.links_self.v),
        row_signature |-> ToString(n.row_signature.v),
        index_row_signature |-> NULL,
        date_indexed |-> now]

\* rows = [normalize_record("company_index", it) for it in items]
IxRows(items, now) == [k \in 1..Len(items) |-> IxRow(items[k], now)]

\* max_pages: <<>> for None, <<n>> for the number n
IxMaxPages == {<<>>, <<1>>}

\* if max_pages and page_no >= max_pages
MaxPagesReached_OffByOne(max_pages, page_no) ==
    max_pages # <<>> /\ max_pages[1] # 0 /\ page_no > max_pages[1]
MaxPagesReached(max_pages, page_no) ==
    max_pages # <<>> /\ max_pages[1] # 0 /\ page_no >= max_pages[1]

NoResult == [status |-> "none", code |-> 0, body |-> "none"]
NoSweep == [page_no |-> 0, result |-> NoResult, exhausted |-> FALSE]

\* what index() answers with
IxOk == [status |-> "ok", code |-> 200, body |-> "counts"]
IxWriteErrors == [status |-> "error", code |-> 500, body |-> "errors"]
IxException == [status |-> "error", code |-> 500, body |-> "message"]

\* what the loop does after a page whose write reported errors
IxAfterWriteErrors == "returned"

IxStart(source, max_pages, run, now) ==
    [pc |-> "start", run |-> run, now |-> now, source |-> source,
     max_pages |-> max_pages, page_no |-> 0, inserted_total |-> 0,
     skipped_total |-> 0, result |-> NoResult, exhausted |-> FALSE,
     write_errors |-> FALSE, raised |-> FALSE,
     before |-> EmptyBag, prev |-> NoSweep]

IxInit ==
    \E source \in IxSources, max_pages \in IxMaxPages :
       ix = IxStart(source, max_pages, 1, 1)

IxIdle == ix = [IxStart([total |-> 0, items |-> [k \in IxOffsets |-> IxItemA]],
                        <<>>, 0, 0) EXCEPT !.pc = "idle"]

\* paginate_companies_house(query=q, items_per_page=100, sleep_sec=1.0)
IxPaginateCall ==
    /\ pg_pc' = "request"
    /\ start_index' = 0
    /\ consecutive_errors' = 0
    /\ page' = 0
    /\ pg_sleep_sec' = pg_sleep_sec_default
    /\ pg_max_retries' = pg_max_retries_default
    /\ pg_requests' = <<>>
    /\ pg_sleeps' = <<>>
    /\ pg_yielded' = <<>>
    /\ pg_outcome' = "running"

\* ensure_table_exists("company_index"), then the generator is created; an
\* exception of the warehouse client is answered by the outer except
IxBegin(raises) ==
    /\ ix.pc = "start"
    /\ IF raises
       THEN /\ ix' = [ix EXCEPT !.pc = "returned", !.result = IxException,
                                 !.raised = TRUE]
            /\ UNCHANGED <<pgVars, bqVars>>
       ELSE /\ bq_exists' = bq_exists \cup {"company_index"}
            /\ UNCHANGED bq_rows
            /\ IxPaginateCall
            /\ ix' = [ix EXCEPT !.pc = "loop", !.before = bq_rows["company_index"]]
    /\ UNCHANGED wrVars

\* the generator runs up to its next yield or its end: one request
IxRequest ==
    /\ ix.pc = "loop"
    /\ \/ start_index >= ix.source.total /\ PgRangeEnd
       \/ PgRateLimited
       \/ PgTransientError
       \/ PgSuccess(PageSizeAt(ix.source, start_index))
    /\ ix' = [ix EXCEPT !.exhausted =
                 /\ pg_pc' = "done"
                 /\ pg_requests'[Len(pg_requests')].resp = "error"]
    /\ UNCHANGED <<bqVars, wrVars>>

\* the loop body up to the writer's existence query: page_no += 1, normalize
\* every item, insert_rows_for_table("company_index", rows)
IxPage ==
    /\ ix.pc = "loop"
    /\ pg_pc = "yielded"
    /\ LET y == pg_yielded[Len(pg_yielded)]
           rows == IxRows(ItemsFrom(ix.source, y.off, y.n), ix.now)
       IN WrCall(1, "company_index", rows)
    /\ ix' = [ix EXCEPT !.pc = "write", !.page_no = @ + 1]
    /\ UNCHANGED pgVars

\* insert_rows_for_table at work
IxWriteStep ==
    /\ ix.pc = "write"
    /\ \/ WrCheck(1)
       \/ \E nerr \in 0..batch_size : WrInsertBatch(1, nerr)
    /\ UNCHANGED <<pgVars, ix>>

\* the loop body after insert_rows_for_table returned
IxAfterWrite ==
    /\ ix.pc = "write"
    /\ wr[1].pc = "returned"
    /\ WrReturn(1)
    /\ LET res == wr[1].result IN
       IF res.errors # <<>>
       THEN ix' = [ix EXCEPT !.pc = IxAfterWriteErrors,
                             !.write_errors = TRUE,
                             !.result = IF IxAfterWriteErrors = "returned"
                                        THEN IxWriteErrors ELSE @]
       ELSE LET counted == [ix EXCEPT !.inserted_total = @ + res.inserted,
                                      !.skipped_total = @ + res.skipped]
            IN IF MaxPagesReached(ix.max_pages, ix.page_no)
               THEN ix' = [counted EXCEPT !.pc = "returned", !.result = IxOk]
               ELSE ix' = [counted EXCEPT !.pc = "next"]
    /\ UNCHANGED pgVars

\* the for loop asks the generator for the next page: the code after the yield
IxNext ==
    /\ ix.pc = "next"
    /\ PgResume
    /\ ix' = [ix EXCEPT !.pc = "loop"]
    /\ UNCHANGED <<bqVars, wrVars>>

\* the generator ended: return {"status": "ok", ...}, 200
IxReturn ==
    /\ ix.pc = "loop"
    /\ pg_pc = "done"
    /\ ix' = [ix EXCEPT !.pc = "returned", !.result = IxOk]
    /\ UNCHANGED <<pgVars, bqVars, wrVars>>

\* the endpoint is called again, later, over the same registry
IxAgain(max_pages) ==
    /\ ix.pc = "returned"
    /\ ix.run = 1
    /\ ix' = [IxStart(ix.source, max_pages, 2, 2) EXCEPT
                 !.before = bq_rows["company_index"],
                 !.prev = [page_no |-> ix.page_no, result |-> ix.result,
                           exhausted |-> ix.exhausted]]
    /\ UNCHANGED <<pgVars, bqVars, wrVars>>

(***************************************************************************)
(* The /subscriber route of the main application: subscriber_endpoint        *)
(***************************************************************************)
\* the modules app.py imports (lines 3-8), and the ones the decoding of
\* message.data names: json.loads(base64.b64decode(data_b64).decode("utf-8"))
ApImports == {"os", "time", "logging", "flask", "bigquery", "json"}
ApDecodeNames == {"json", "base64"}
ApUndefinedNames == ApDecodeNames \ ApImports

\* the route up to the three payload.get calls; a name that is not defined
\* raises NameError inside the inner try, whose except answers 400
ApDecode(env) ==
    LET is(kind) == [kind |-> kind, msg |-> NoMsg]
    IN IF env.body = "none" THEN is("bad_request")
       ELSE IF env.body # "object" THEN is("AttributeError")
       ELSE IF env.message = "missing" THEN is("bad_request")
       ELSE IF env.message # "object" THEN is("AttributeError")
       ELSE IF env.data = "missing" THEN is("event")
       ELSE IF ApUndefinedNames # {} THEN is("bad_request")
       ELSE IF env.data \in {"not_base64", "not_json"} THEN is("bad_request")
       ELSE IF env.data # "object" THEN is("AttributeError")
       ELSE [kind |-> "event", msg |-> env.payload]

NoEnvelope == Envelope("none", "missing", "missing", NoMsg)

\* env: the delivery both handlers are given; sb_fetch, fetch: the answers
\* the detail API gave to the push handler and to the route
ApIdle ==
    ap = [pc |-> "idle", env |-> NoEnvelope, msg |-> NoMsg, answer |-> NoAnswer,
          sb_fetch |-> <<>>, fetch |-> <<>>]

ApAnswer(msg, status, outcome, requests, inserted) ==
    ap' = [ap EXCEPT !.pc = "answered", !.msg = NoMsg, !.fetch = requests,
                     !.answer = [event |-> msg, status |-> status,
                                 outcome |-> outcome, requests |-> Len(requests),
                                 inserted |-> inserted]]

\* the route is given the delivery: decoding, the quick check against
\* company_details (if company_number: ... LIMIT 1) and the call of
\* fetch_company_detail; every exception is answered by the outer except
ApDeliver ==
    /\ ap.pc = "pending"
    /\ sb_pc = "idle"
    /\ UNCHANGED bqVars
    /\ LET dec == ApDecode(ap.env)
           msg == dec.msg
           details == bq_rows["company_details"]
       IN IF dec.kind = "bad_request"
          THEN ApAnswer(msg, SbBadRequest, "bad_request", <<>>, 0) /\ UNCHANGED fdVars
          ELSE IF dec.kind = "AttributeError"
          THEN ApAnswer(msg, SbOnException, "AttributeError", <<>>, 0) /\ UNCHANGED fdVars
          ELSE IF msg.company_number # NULL /\ "company_details" \notin bq_exists
          THEN ApAnswer(msg, SbOnException, "query_failed", <<>>, 0) /\ UNCHANGED fdVars
          ELSE \E up \in IsUpToDate(msg.company_number, msg.index_row_signature,
                                    details) :
                  IF up
                  THEN ApAnswer(msg, SbAck, "up_to_date", <<>>, 0) /\ UNCHANGED fdVars
                  ELSE /\ ap' = [ap EXCEPT !.pc = "fetch", !.msg = msg]
                       /\ FdCallWith(fd_max_retries_default, fd_sleep_sec_default)

\* one request of fetch_company_detail(company_number or links_self)
ApFetchStep ==
    /\ ap.pc = "fetch"
    /\ FdNext
    /\ UNCHANGED <<bqVars, ap>>

\* fetch_company_detail is over: the rest of the route
ApFinish ==
    /\ ap.pc = "fetch"
    /\ fd_pc \in {"returned", "raised"}
    /\ FdReset
    /\ IF fd_pc = "raised"
       THEN /\ UNCHANGED bqVars
            /\ ApAnswer(ap.msg, SbOnException, "fetch_raised", fd_requests, 0)
       ELSE IF NoDetail(fd_result)
       THEN /\ UNCHANGED bqVars
            /\ ApAnswer(ap.msg, SbAck, "absent", fd_requests, 0)
       ELSE IF UnexpectedKeywords # {}
       THEN /\ UNCHANGED bqVars
            /\ ApAnswer(ap.msg, SbOnException, "TypeError", fd_requests, 0)
       ELSE \E nerr \in {0, 1} :
               LET res == SbInsert(SbDetailRow(ap.msg), bq_rows["company_details"], nerr)
               IN /\ bq_rows' = [bq_rows EXCEPT !["company_details"] = res.table]
                  /\ UNCHANGED bq_exists
                  /\ ApAnswer(ap.msg, IF res.errors > 0 THEN SbOnErrors ELSE SbAck,
                              IF res.errors > 0 THEN "insert_errors" ELSE "written",
                              fd_requests, res.inserted)

(***************************************************************************)
(* Specifications                                                            *)
(***************************************************************************)
vars == <<pgVars, fdVars, bqVars, wrVars, nmVars, df_run, sbVars, pbVars, ix, ap>>

\* one pagination run against an arbitrary search API
InitPage == PgInit /\ FdIdle /\ BqInit /\ WrInit /\ NmIdle /\ DfInit /\ SbIdle /\ PbIdle /\ IxIdle /\ ApIdle
NextPage ==
    \/ PgRangeEnd /\ UNCHANGED <<fdVars, bqVars, wrVars, nmVars, df_run, sbVars, pbVars, ix, ap>>
    \/ PgRateLimited /\ UNCHANGED <<fdVars, bqVars, wrVars, nmVars, df_run, sbVars, pbVars, ix, ap>>
    \/ PgTransientError /\ UNCHANGED <<fdVars, bqVars, wrVars, nmVars, df_run, sbVars, pbVars, ix, ap>>
    \/ \E n \in PageSizes : PgSuccess(n) /\ UNCHANGED <<fdVars, bqVars, wrVars, nmVars, df_run, sbVars, pbVars, ix, ap>>
    \/ PgResume /\ UNCHANGED <<fdVars, bqVars, wrVars, nmVars, df_run, sbVars, pbVars, ix, ap>>
SpecPage == InitPage /\ [][NextPage]_vars

\* one detail fetch against an arbitrary detail API
InitFetch == FdInit /\ PgIdle /\ BqInit /\ WrInit /\ NmIdle /\ DfInit /\ SbIdle /\ PbIdle /\ IxIdle /\ ApIdle
NextFetch ==
    \/ FdNotFound /\ UNCHANGED <<pgVars, bqVars, wrVars, nmVars, df_run, sbVars, pbVars, ix, ap>>
    \/ FdRateLimited /\ UNCHANGED <<pgVars, bqVars, wrVars, nmVars, df_run, sbVars, pbVars, ix, ap>>
    \/ FdTransientError /\ UNCHANGED <<pgVars, bqVars, wrVars, nmVars, df_run, sbVars, pbVars, ix, ap>>
    \/ FdSuccess /\ UNCHANGED <<pgVars, bqVars, wrVars, nmVars, df_run, sbVars, pbVars, ix, ap>>
SpecFetch == InitFetch /\ [][NextFetch]_vars

\* calls of the dedup writer one after the other, by one writer
InitWriter == BqInit /\ WrInit /\ PgIdle /\ FdIdle /\ NmIdle /\ DfInit /\ SbIdle /\ PbIdle /\ IxIdle /\ ApIdle
NextWriter ==
    \/ \E t \in WrTableNames, rows \in WrInputs :
          WrCall(1, t, rows) /\ UNCHANGED <<pgVars, fdVars, nmVars, df_run, sbVars, pbVars, ix, ap>>
    \/ WrCheck(1) /\ UNCHANGED <<pgVars, fdVars, nmVars, df_run, sbVars, pbVars, ix, ap>>
    \/ WrInsertBatch(1, 0) /\ UNCHANGED <<pgVars, fdVars, nmVars, df_run, sbVars, pbVars, ix, ap>>
    \/ \E nerr \in 1..batch_size : WrInsertBatch(1, nerr) /\ UNCHANGED <<pgVars, fdVars, nmVars, df_run, sbVars, pbVars, ix, ap>>
    \/ WrReturn(1) /\ UNCHANGED <<pgVars, fdVars, nmVars, df_run, sbVars, pbVars, ix, ap>>
SpecWriter == InitWriter /\ [][NextWriter]_vars

\* normalize_record called again and again on a source record that changes
InitNorm == NmInit /\ PgIdle /\ FdIdle /\ BqInit /\ WrInit /\ DfInit /\ SbIdle /\ PbIdle /\ IxIdle /\ ApIdle
NextNorm ==
    \/ \E key \in DOMAIN nm_raw : \E value \in RawChoices(nm_target)[key] :
          NmEdit(key, value) /\ UNCHANGED <<pgVars, fdVars, bqVars, wrVars, df_run, sbVars, pbVars, ix, ap>>
    \/ NmNormalize /\ UNCHANGED <<pgVars, fdVars, bqVars, wrVars, df_run, sbVars, pbVars, ix, ap>>
SpecNorm == InitNorm /\ [][NextNorm]_vars

\* a pagination run and a detail fetch with the same base delay and budget,
\* each against an arbitrary API
InitBackoff ==
    /\ PgInit /\ FdInit
    /\ fd_sleep_sec = pg_sleep_sec
    /\ fd_max_retries = pg_max_retries
    /\ BqInit /\ WrInit /\ NmIdle /\ DfInit /\ SbIdle /\ PbIdle /\ IxIdle /\ ApIdle
NextBackoff ==
    \/ PgRangeEnd /\ UNCHANGED <<fdVars, bqVars, wrVars, nmVars, df_run, sbVars, pbVars, ix, ap>>
    \/ PgRateLimited /\ UNCHANGED <<fdVars, bqVars, wrVars, nmVars, df_run, sbVars, pbVars, ix, ap>>
    \/ PgTransientError /\ UNCHANGED <<fdVars, bqVars, wrVars, nmVars, df_run, sbVars, pbVars, ix, ap>>
    \/ \E n \in PageSizes : PgSuccess(n) /\ UNCHANGED <<fdVars, bqVars, wrVars, nmVars, df_run, sbVars, pbVars, ix, ap>>
    \/ PgResume /\ UNCHANGED <<fdVars, bqVars, wrVars, nmVars, df_run, sbVars, pbVars, ix, ap>>
    \/ FdNotFound /\ UNCHANGED <<pgVars, bqVars, wrVars, nmVars, df_run, sbVars, pbVars, ix, ap>>
    \/ FdRateLimited /\ UNCHANGED <<pgVars, bqVars, wrVars, nmVars, df_run, sbVars, pbVars, ix, ap>>
    \/ FdTransientError /\ UNCHANGED <<pgVars, bqVars, wrVars, nmVars, df_run, sbVars, pbVars, ix, ap>>
    \/ FdSuccess /\ UNCHANGED <<pgVars, bqVars, wrVars, nmVars, df_run, sbVars, pbVars, ix, ap>>
SpecBackoff == InitBackoff /\ [][NextBackoff]_vars

\* the diff query over the tables as other runs of the pipeline fill them
InitDiff == DfInit /\ BqInit /\ WrInit /\ PgIdle /\ FdIdle /\ NmIdle /\ SbIdle /\ PbIdle /\ IxIdle /\ ApIdle
NextDiff ==
    \/ \E r \in DfIndexRows :
          DfIndexAppend(r) /\ UNCHANGED <<pgVars, fdVars, wrVars, nmVars, sbVars, pbVars, ix, ap>>
    \/ \E r \in DfDetailRows :
          DfDetailAppend(r) /\ UNCHANGED <<pgVars, fdVars, wrVars, nmVars, sbVars, pbVars, ix, ap>>
    \/ DfRun /\ UNCHANGED <<pgVars, fdVars, wrVars, nmVars, sbVars, pbVars, ix, ap>>
SpecDiff == InitDiff /\ [][NextDiff]_vars

\* the push handler, while other runs of the pipeline store detail rows; the
\* dataset's tables are provisioned outside this code
InitSub ==
    /\ SbInit /\ FdIdle /\ PgIdle /\ WrInit /\ NmIdle /\ DfInit /\ PbIdle /\ IxIdle /\ ApIdle
    /\ bq_rows = [t \in TableConfigKeys |-> EmptyBag]
    /\ bq_exists \in {{}, TableConfigKeys}
NextSub ==
    \/ \E env \in SbEnvelopes :
          SbDeliver(env) /\ UNCHANGED <<pgVars, wrVars, nmVars, df_run, pbVars, ix, ap>>
    \/ SbFetchStep /\ UNCHANGED <<pgVars, wrVars, nmVars, df_run, pbVars, ix, ap>>
    \/ SbFinish /\ UNCHANGED <<pgVars, wrVars, nmVars, df_run, pbVars, ix, ap>>
    \/ \E r \in DfDetailRows :
          DfDetailAppend(r) /\ UNCHANGED <<pgVars, fdVars, wrVars, nmVars, sbVars, pbVars, ix, ap>>
SpecSub == InitSub /\ [][NextSub]_vars

\* one run of the publisher over tables that earlier runs of the pipeline filled
InitPub == PbInit /\ BqInit /\ DfInit /\ SbIdle /\ WrInit /\ PgIdle /\ FdIdle /\ NmIdle /\ IxIdle /\ ApIdle
NextPub ==
    \/ \E r \in DfIndexRows :
          /\ pb_pc = "idle"
          /\ DfIndexAppend(r)
          /\ UNCHANGED <<pgVars, fdVars, wrVars, nmVars, sbVars, pbVars, ix, ap>>
    \/ \E r \in DfDetailRows :
          /\ pb_pc = "idle"
          /\ DfDetailAppend(r)
          /\ UNCHANGED <<pgVars, fdVars, wrVars, nmVars, sbVars, pbVars, ix, ap>>
    \/ \E limit \in PbLimits :
          PbCall(limit) /\ UNCHANGED <<pgVars, fdVars, wrVars, nmVars, df_run, sbVars, ix, ap>>
    \/ PbPublish /\ UNCHANGED <<pgVars, fdVars, wrVars, nmVars, df_run, sbVars, ix, ap>>
    \/ PbConfirm /\ UNCHANGED <<pgVars, fdVars, wrVars, nmVars, df_run, sbVars, ix, ap>>
    \/ PbFail /\ UNCHANGED <<pgVars, fdVars, wrVars, nmVars, df_run, sbVars, ix, ap>>
SpecPub == InitPub /\ [][NextPub]_vars

\* the index sweep, run once and then once more over the same registry
InitIndex ==
    /\ IxInit /\ ApIdle /\ PgIdle /\ FdIdle /\ BqInit /\ WrInit /\ NmIdle /\ DfInit /\ SbIdle /\ PbIdle
NextIndex ==
    \/ \E raises \in BOOLEAN :
          IxBegin(raises) /\ UNCHANGED <<fdVars, nmVars, df_run, sbVars, pbVars, ap>>
    \/ IxRequest /\ UNCHANGED <<fdVars, nmVars, df_run, sbVars, pbVars, ap>>
    \/ IxPage /\ UNCHANGED <<fdVars, nmVars, df_run, sbVars, pbVars, ap>>
    \/ IxWriteStep /\ UNCHANGED <<fdVars, nmVars, df_run, sbVars, pbVars, ap>>
    \/ IxAfterWrite /\ UNCHANGED <<fdVars, nmVars, df_run, sbVars, pbVars, ap>>
    \/ IxNext /\ UNCHANGED <<fdVars, nmVars, df_run, sbVars, pbVars, ap>>
    \/ IxReturn /\ UNCHANGED <<fdVars, nmVars, df_run, sbVars, pbVars, ap>>
    \/ \E max_pages \in IxMaxPages :
          IxAgain(max_pages) /\ UNCHANGED <<fdVars, nmVars, df_run, sbVars, pbVars, ap>>
SpecIndex == InitIndex /\ [][NextIndex]_vars

\* the pipeline's operations over shared tables: writes through the dedup
\* writer fill the two tables, then the diff query, a run of the publisher or
\* a delivery to the consumer follows
PlInputs(t) ==
    IF t = "company_index"
    THEN SeqsUpTo({Row("A", "s1", NULL, 1), Row("B", "s3", NULL, 2)}, MaxCallRows)
    ELSE SeqsUpTo({Row("A", "d1", "s1", 3), Row("B", "d2", NULL, 3)}, MaxCallRows)
PlFilling ==
    pb_pc = "idle" /\ sb_pc = "idle" /\ sb_count = 0 /\ ~df_run.ran
PlFilled == wr[1].pc = "idle"
InitPipeline ==
    /\ BqInit /\ WrInit /\ DfInit /\ SbInit /\ PbInit
    /\ PgIdle /\ FdIdle /\ NmIdle /\ IxIdle /\ ApIdle
NextPipeline ==
    \/ \E t \in TableConfigKeys : \E rows \in PlInputs(t) :
          /\ PlFilling
          /\ WrCall(1, t, rows)
          /\ UNCHANGED <<pgVars, fdVars, nmVars, df_run, sbVars, pbVars, ix, ap>>
    \/ WrCheck(1) /\ UNCHANGED <<pgVars, fdVars, nmVars, df_run, sbVars, pbVars, ix, ap>>
    \/ \E nerr \in 0..batch_size :
          WrInsertBatch(1, nerr) /\ UNCHANGED <<pgVars, fdVars, nmVars, df_run, sbVars, pbVars, ix, ap>>
    \/ WrReturn(1) /\ UNCHANGED <<pgVars, fdVars, nmVars, df_run, sbVars, pbVars, ix, ap>>
    \/ /\ PlFilling /\ PlFilled
       /\ DfRun
       /\ UNCHANGED <<pgVars, fdVars, wrVars, nmVars, sbVars, pbVars, ix, ap>>
    \/ \E limit \in PbLimits :
          /\ PlFilling /\ PlFilled
          /\ PbCall(limit)
          /\ UNCHANGED <<pgVars, fdVars, wrVars, nmVars, df_run, sbVars, ix, ap>>
    \/ PbPublish /\ UNCHANGED <<pgVars, fdVars, wrVars, nmVars, df_run, sbVars, ix, ap>>
    \/ PbConfirm /\ UNCHANGED <<pgVars, fdVars, wrVars, nmVars, df_run, sbVars, ix, ap>>
    \/ PbFail /\ UNCHANGED <<pgVars, fdVars, wrVars, nmVars, df_run, sbVars, ix, ap>>
    \/ \E env \in SbEnvelopes :
          /\ PlFilled /\ pb_pc = "idle" /\ ~df_run.ran /\ sb_count = 0
          /\ SbDeliver(env)
          /\ UNCHANGED <<pgVars, wrVars, nmVars, df_run, pbVars, ix, ap>>
    \/ SbFetchStep /\ UNCHANGED <<pgVars, wrVars, nmVars, df_run, pbVars, ix, ap>>
    \/ SbFinish /\ UNCHANGED <<pgVars, wrVars, nmVars, df_run, pbVars, ix, ap>>
SpecPipeline == InitPipeline /\ [][NextPipeline]_vars

\* calls of the normalizer and of the writer with table names of the
\* configuration and with one that is not in it
InitTarget ==
    /\ NmInit /\ BqInit /\ WrInit
    /\ PgIdle /\ FdIdle /\ DfInit /\ SbIdle /\ PbIdle /\ IxIdle /\ ApIdle
NextTarget ==
    \/ NmNormalize /\ UNCHANGED <<pgVars, fdVars, bqVars, wrVars, df_run, sbVars, pbVars, ix, ap>>
    \/ \E t \in WrTableNames : \E rows \in PlInputs("company_index") :
          WrCall(1, t, rows) /\ UNCHANGED <<pgVars, fdVars, nmVars, df_run, sbVars, pbVars, ix, ap>>
    \/ WrCheck(1) /\ UNCHANGED <<pgVars, fdVars, nmVars, df_run, sbVars, pbVars, ix, ap>>
    \/ \E nerr \in 0..batch_size :
          WrInsertBatch(1, nerr) /\ UNCHANGED <<pgVars, fdVars, nmVars, df_run, sbVars, pbVars, ix, ap>>
    \/ WrReturn(1) /\ UNCHANGED <<pgVars, fdVars, nmVars, df_run, sbVars, pbVars, ix, ap>>
SpecTarget == InitTarget /\ [][NextTarget]_vars

\* two invocations of the writer on one table whose steps interleave: no
\* lock is taken between the existence query and the streaming inserts
\* the first is given a batch of rows, the second one row at most
OvInputs(p) ==
    SeqsUpTo({Row("A", "s1", NULL, 0), Row("A", "s2", NULL, 0)},
             IF p = 1 THEN MaxCallRows ELSE 1)
InitOverlap ==
    /\ BqInit /\ WrInit
    /\ PgIdle /\ FdIdle /\ NmIdle /\ DfInit /\ SbIdle /\ PbIdle /\ IxIdle /\ ApIdle
NextOverlap ==
    \/ \E p \in Writers : \E rows \in OvInputs(p) :
          WrCall(p, "company_index", rows) /\ UNCHANGED <<pgVars, fdVars, nmVars, df_run, sbVars, pbVars, ix, ap>>
    \/ \E p \in Writers :
          WrCheck(p) /\ UNCHANGED <<pgVars, fdVars, nmVars, df_run, sbVars, pbVars, ix, ap>>
    \/ \E p \in Writers :
          WrInsertBatch(p, 0) /\ UNCHANGED <<pgVars, fdVars, nmVars, df_run, sbVars, pbVars, ix, ap>>
    \/ \E p \in Writers : \E nerr \in 1..batch_size :
          WrInsertBatch(p, nerr) /\ UNCHANGED <<pgVars, fdVars, nmVars, df_run, sbVars, pbVars, ix, ap>>
    \/ \E p \in Writers :
          WrReturn(p) /\ UNCHANGED <<pgVars, fdVars, nmVars, df_run, sbVars, pbVars, ix, ap>>
SpecOverlap == InitOverlap /\ [][NextOverlap]_vars

\* the change cycle repeated for ever over a source that settles: the
\* publisher runs the diff and publishes its events, each confirmed event is
\* pushed to the consumer, the detail API answers every request with the
\* record and the warehouse takes every insert; then the next round starts
CyIndexRows == {Row("A", "s1", NULL, 1), Row("B", "s3", NULL, 1)}
\* the index entry of A after its signature changed
CyChanged == Row("A", "s2", NULL, 2)

\* the body of the push delivery of a published event
CyEnvelope(payload) ==
    Envelope("object", "object", "object",
             [company_number |-> payload.company_number,
              links_self |-> payload.links_self,
              index_row_signature |-> payload.index_row_signature])

InitCycle ==
    /\ bq_exists = TableConfigKeys
    /\ \E S \in (SUBSET CyIndexRows) \ {{}} :
          bq_rows = [t \in TableConfigKeys |->
                        IF t = "company_index" THEN SetToBag(S) ELSE EmptyBag]
    /\ WrInit /\ PbInit /\ SbInit /\ DfInit
    /\ PgIdle /\ FdIdle /\ NmIdle /\ IxIdle /\ ApIdle

\* an index sweep stores the entry of A under its new signature
CyIndexChange ==
    /\ CyChanged \notin BagToSet(bq_rows["company_index"])
    /\ Row("A", "s1", NULL, 1) \in BagToSet(bq_rows["company_index"])
    /\ bq_rows' = [bq_rows EXCEPT !["company_index"] = Appended(@, <<CyChanged>>)]
    /\ UNCHANGED bq_exists

\* the events of the round have been pushed: publish_messages is called again
CyAgain ==
    /\ pb_pc = "returned"
    /\ sb_pc = "idle"
    /\ sb_count = Min(MaxDeliveries, Len(pb_channel))
    /\ pb_pc' = "idle"
    /\ pb_limit' = <<>>
    /\ pb_rows' = <<>>
    /\ pb_count' = 0
    /\ pb_channel' = <<>>
    /\ pb_result' = 0
    /\ sb_count' = 0
    /\ UNCHANGED <<sb_pc, sb_msg, sb_answer>>

NextCycle ==
    \/ CyIndexChange /\ UNCHANGED <<pgVars, fdVars, wrVars, nmVars, df_run, sbVars, pbVars, ix, ap>>
    \/ PbCall(<<>>) /\ UNCHANGED <<pgVars, fdVars, wrVars, nmVars, df_run, sbVars, ix, ap>>
    \/ PbPublish /\ UNCHANGED <<pgVars, fdVars, wrVars, nmVars, df_run, sbVars, ix, ap>>
    \/ PbConfirm /\ UNCHANGED <<pgVars, fdVars, wrVars, nmVars, df_run, sbVars, ix, ap>>
    \/ /\ pb_pc = "returned"
       /\ sb_count < Len(pb_channel)
       /\ SbDeliver(CyEnvelope(pb_channel[sb_count + 1].event))
       /\ UNCHANGED <<pgVars, wrVars, nmVars, df_run, pbVars, ix, ap>>
    \/ /\ sb_pc = "fetch"
       /\ FdSuccess
       /\ UNCHANGED <<pgVars, bqVars, wrVars, nmVars, df_run, sbVars, pbVars, ix, ap>>
    \/ /\ SbFinish
       /\ sb_answer'.outcome # "insert_errors"
       /\ UNCHANGED <<pgVars, wrVars, nmVars, df_run, pbVars, ix, ap>>
    \/ CyAgain /\ UNCHANGED <<pgVars, fdVars, bqVars, wrVars, nmVars, df_run, ix, ap>>
SpecCycle == InitCycle /\ [][NextCycle]_vars /\ WF_vars(NextCycle)

\* one delivery given to the push handler of subscriber.py and then to the
\* /subscriber route of app.py, over the same detail table
InitRoutes ==
    /\ BqInit /\ SbInit /\ ApIdle
    /\ FdIdle /\ PgIdle /\ WrInit /\ NmIdle /\ DfInit /\ PbIdle /\ IxIdle
NextRoutes ==
    \/ \E r \in DfDetailRows :
          /\ sb_count = 0
          /\ DfDetailAppend(r)
          /\ UNCHANGED <<pgVars, fdVars, wrVars, nmVars, sbVars, pbVars, ix, ap>>
    \/ \E env \in SbEnvelopes :
          /\ ap.pc = "idle"
          /\ SbDeliver(env)
          /\ ap' = [ap EXCEPT !.pc = "pending", !.env = env]
          /\ UNCHANGED <<pgVars, wrVars, nmVars, df_run, pbVars, ix>>
    \/ SbFetchStep /\ UNCHANGED <<pgVars, wrVars, nmVars, df_run, pbVars, ix, ap>>
    \/ /\ SbFinish
       /\ ap' = [ap EXCEPT !.sb_fetch = fd_requests]
       /\ UNCHANGED <<pgVars, wrVars, nmVars, df_run, pbVars, ix>>
    \/ ApDeliver /\ UNCHANGED <<pgVars, wrVars, nmVars, df_run, sbVars, pbVars, ix>>
    \/ ApFetchStep /\ UNCHANGED <<pgVars, wrVars, nmVars, df_run, sbVars, pbVars, ix>>
    \/ ApFinish /\ UNCHANGED <<pgVars, wrVars, nmVars, df_run, sbVars, pbVars, ix>>
SpecRoutes == InitRoutes /\ [][NextRoutes]_vars

(***************************************************************************)
(* Properties of the pagination run (SpecPage)                               *)
(***************************************************************************)
PgSizes(log) == [k \in 1..Len(log) |-> log[k].n]

\* the trailing run of unsuccessful (429 or failed) requests of a log
RECURSIVE TrailingFailures(_)
TrailingFailures(log) ==
    IF log = <<>> \/ log[Len(log)].resp \notin {"429", "error"}
    THEN 0
    ELSE 1 + TrailingFailures(SubSeq(log, 1, Len(log) - 1))

\* C4: once a page shorter than the page size has been yielded, the run ends
\* and issues no further request; answers of sizes 100, 100, 37 give exactly
\* three pages from exactly three requests.
C4_ShortPageEndsRun ==
    /\ \A k \in 1..Len(pg_yielded) :
          pg_yielded[k].n < items_per_page =>
             /\ k = Len(pg_yielded)
             /\ Len(pg_requests) = pg_yielded[k].req
             /\ pg_pc \in {"yielded", "done"}
    /\ (/\ Len(pg_requests) >= 3
        /\ \A i \in 1..3 : pg_requests[i].resp = "ok"
        /\ PgSizes(SubSeq(pg_requests, 1, 3)) = <<100, 100, 37>>)
       => /\ Len(pg_requests) = 3
          /\ PgSizes(pg_yielded) = <<100, 100, 37>>
          /\ page = 3

C4_Witness ==
    /\ pg_pc = "done"
    /\ Len(pg_requests) = 3
    /\ Len(pg_requests) < MaxRequests
    /\ \A i \in 1..3 : pg_requests[i].resp = "ok"
    /\ PgSizes(pg_yielded) = <<100, 100, 37>>

\* requests r+1..r+3 are answered 429 and request r+4 is a non-empty success,
\* r being the start of the run or a successful request
RateLimitedThrice(r) ==
    /\ Len(pg_requests) >= r + 4
    /\ r = 0 \/ pg_requests[r].resp = "ok"
    /\ \A i \in 1..3 : pg_requests[r + i].resp = "429"
    /\ pg_requests[r + 4].resp = "ok"
    /\ pg_requests[r + 4].n > 0

SleepsBetween(lo, hi) ==
    SelectSeq(pg_sleeps, LAMBDA s : s.after >= lo /\ s.after <= hi)

\* C5: three 429 answers in a row followed by a success give exactly three
\* backoff delays before the page is yielded, each at least as long as the one
\* before and strictly longer until the ceiling is reached, and then that one
\* page is yielded.
C5_ThreeBackoffsThenPage ==
    \A r \in 0..MaxRequests :
       RateLimitedThrice(r) =>
          LET d == SleepsBetween(r + 1, r + 3)
              late == SleepsBetween(r + 4, r + 4)
          IN /\ Len(d) = 3
             /\ \A i \in 1..3 : d[i].kind = "rate" /\ d[i].after = r + i
             /\ \A i \in 1..2 :
                   /\ d[i].dur <= d[i + 1].dur
                   /\ d[i].dur < d[i + 1].dur \/ d[i].dur = BackoffCeiling
             /\ \A i \in 1..Len(late) : late[i].kind = "polite"
             /\ \E k \in 1..Len(pg_yielded) :
                   /\ pg_yielded[k].req = r + 4
                   /\ pg_yielded[k].n = pg_requests[r + 4].n
                   /\ pg_yielded[k].off = pg_requests[r + 1].off

C5_Witness ==
    /\ RateLimitedThrice(0)
    /\ pg_sleep_sec = pg_sleep_sec_default
    /\ pg_pc = "yielded"

\* C8: when a transient error brings the consecutive-error count to the retry
\* budget the run ends as an ordinary end of sequence: nothing is raised to
\* the consumer, in this or in any other state, and the pages yielded before
\* stay yielded.
C8_ExhaustionEndsSilently ==
    /\ pg_outcome # "raise"
    /\ (/\ pg_requests # <<>>
        /\ pg_requests[Len(pg_requests)].resp = "error"
        /\ consecutive_errors >= pg_max_retries)
       => /\ pg_pc = "done"
          /\ pg_outcome = "stop"
          /\ page = Len(pg_yielded)

C8_Witness ==
    /\ pg_pc = "done"
    /\ pg_requests[Len(pg_requests)].resp = "error"
    /\ consecutive_errors >= pg_max_retries
    /\ pg_max_retries > 1
    /\ Len(pg_yielded) >= 1

\* C10: 429 answers count against the retry budget like transient errors:
\* after max_retries consecutive unsuccessful requests the run has ended.
C10_RateLimitsExhaustBudget ==
    TrailingFailures(pg_requests) >= pg_max_retries => pg_pc = "done"

(***************************************************************************)
(* Properties of the detail fetch (SpecFetch)                                *)
(***************************************************************************)
FdAllFailed == \A i \in 1..Len(fd_requests) : fd_requests[i] \in {"429", "error"}

\* C9: fetch_company_detail issues at most max_retries requests; when all of
\* them were rate limited or failed it raises and returns neither a record nor
\* the absent value.
C9_FetchDetailBudget ==
    /\ Len(fd_requests) <= fd_max_retries
    /\ FdAllFailed => fd_pc # "returned" /\ fd_result = "none"
    /\ FdAllFailed /\ Len(fd_requests) = fd_max_retries => fd_pc = "raised"
    /\ fd_pc = "raised" => FdAllFailed /\ Len(fd_requests) = fd_max_retries

C9_Witness ==
    /\ fd_pc = "raised"
    /\ Len(fd_requests) = fd_max_retries
    /\ \E i, j \in 1..Len(fd_requests) :
          fd_requests[i] = "429" /\ fd_requests[j] = "error"

\* the polite delays taken right after request r
PoliteAfter(r) ==
    {j \in 1..Len(pg_sleeps) : pg_sleeps[j].kind = "polite" /\ pg_sleeps[j].after = r}

\* C36: every polite delay lasts sleep_sec, whatever errors came before, and
\* follows the request that gave a full page; a yielded full page is followed
\* by exactly one of them once the run goes on, and no polite delay follows
\* a short page, a 416, an empty page or a failed request.
C36_PoliteDelayFixedAfterFullPage ==
    /\ \A j \in 1..Len(pg_sleeps) :
          pg_sleeps[j].kind = "polite" =>
             /\ pg_sleeps[j].dur = pg_sleep_sec
             /\ \E k \in 1..Len(pg_yielded) :
                   /\ pg_yielded[k].req = pg_sleeps[j].after
                   /\ pg_yielded[k].n = items_per_page
    /\ \A k \in 1..Len(pg_yielded) :
          Cardinality(PoliteAfter(pg_yielded[k].req))
             = IF /\ pg_yielded[k].n = items_per_page
                  /\ (k < Len(pg_yielded) \/ pg_pc # "yielded")
               THEN 1 ELSE 0
    /\ \A r \in 1..Len(pg_requests) :
          (pg_requests[r].resp # "ok" \/ pg_requests[r].n < items_per_page)
             => PoliteAfter(r) = {}

C36_Witness ==
    /\ pg_pc = "done"
    /\ Len(pg_requests) = 5
    /\ pg_requests[1].resp = "error"
    /\ pg_requests[2].resp = "ok" /\ pg_requests[2].n = items_per_page
    /\ pg_requests[3].resp = "429"
    /\ pg_requests[4].resp = "ok" /\ pg_requests[4].n = items_per_page
    /\ pg_requests[5].resp = "ok" /\ pg_requests[5].n = 37
    /\ pg_sleep_sec = 80
    /\ Cardinality({j \in 1..Len(pg_sleeps) : pg_sleeps[j].kind = "polite"}) = 2

\* C37: a 416 ends the run at once and cleanly: it is the last request, no
\* delay follows it and the error count is what the failures before it left,
\* whatever that is; an empty page ends the run and is not yielded, so every
\* yielded page has items; every page with items is yielded, the short one
\* too, which is the last request of the run.
C37_EndConditions ==
    LET last == Len(pg_requests) IN
    /\ \A r \in 1..last :
          pg_requests[r].resp = "416" =>
             /\ r = last
             /\ pg_pc = "done" /\ pg_outcome = "stop"
             /\ \A j \in 1..Len(pg_sleeps) : pg_sleeps[j].after < r
             /\ consecutive_errors = TrailingFailures(SubSeq(pg_requests, 1, r - 1))
    /\ \A r \in 1..last :
          (pg_requests[r].resp = "ok" /\ pg_requests[r].n = 0) =>
             /\ r = last
             /\ pg_pc = "done" /\ pg_outcome = "stop"
             /\ \A k \in 1..Len(pg_yielded) : pg_yielded[k].req # r
    /\ \A k \in 1..Len(pg_yielded) : pg_yielded[k].n > 0
    /\ \A r \in 1..last :
          (pg_requests[r].resp = "ok" /\ pg_requests[r].n > 0) =>
             /\ \E k \in 1..Len(pg_yielded) :
                   pg_yielded[k].req = r /\ pg_yielded[k].n = pg_requests[r].n
             /\ pg_requests[r].n < items_per_page => r = last

C37_Witness ==
    /\ pg_pc = "done"
    /\ Len(pg_requests) = 4
    /\ pg_requests[1].resp = "ok" /\ pg_requests[1].n = items_per_page
    /\ pg_requests[2].resp = "429"
    /\ pg_requests[3].resp = "error"
    /\ pg_requests[4].resp = "416"
    /\ consecutive_errors = 2
    /\ pg_max_retries = 3

(***************************************************************************)
(* Properties of the dedup writer (SpecWriter)                               *)
(***************************************************************************)
\* how many rows of a table carry one of the signatures of rows
HeldOf(table, rows) ==
    LET sigs == {rows[k].row_signature : k \in 1..Len(rows)}
        hit == {r \in BagToSet(table) : r.row_signature \in sigs}
    IN BagCardinality([r \in hit |-> table[r]])

RECURSIVE WrittenIn(_)
WrittenIn(batches) ==
    IF batches = <<>> THEN 0
    ELSE (IF Head(batches).ok THEN Head(batches).size ELSE 0) + WrittenIn(Tail(batches))

\* C2: two calls in sequence with the same N rows of pairwise distinct
\* signatures, none in the target before, no write failure: the first returns
\* inserted=N, skipped=0, the second inserted=0, skipped=N, and the target
\* holds exactly N rows of them afterwards.
C2_WriteTwiceIdempotent ==
    \A p \in Writers :
       LET c == wr[p]
           n == Len(c.rows)
       IN /\ WrClean(c) =>
                /\ c.result.inserted = n
                /\ c.result.skipped = 0
                /\ HeldOf(bq_rows[c.table_name], c.rows) = n
          /\ (c.pc = "returned" /\ c.repeat) =>
                /\ c.result.inserted = 0
                /\ c.result.skipped = n
                /\ c.result.errors = <<>>
                /\ HeldOf(bq_rows[c.table_name], c.rows) = n
                /\ bq_rows[c.table_name] = c.pre

C2_Witness ==
    /\ wr[1].pc = "returned"
    /\ wr[1].repeat
    /\ Len(wr[1].rows) > batch_size
    /\ wr[1].result.skipped = Len(wr[1].rows)

RawOf(row) == row.raw_json.v[2]

\* what a source record holds at the places the signature keys are read from
SignatureSources(t, raw) ==
    [i \in 1..Len(SignatureKeys(t)) |-> SourceValue(raw, NormalizeMap(t)[SignatureKeys(t)[i]])]

DetailsOf(i, det) == {d \in BagToSet(det) : d.company_number = i.company_number}

EventsFor(i, events) == {k \in 1..Len(events) : events[k] = DiffSelect(i)}

\* C3: the diff yields an event for an index entry exactly when the detail
\* table has no entry for its identifier or has an entry for it whose
\* index_row_signature is not the index entry's row_signature, and it yields
\* nothing else; index {A:s1, B:s3} against detail {A:s1} gives one event,
\* for B, and against detail {A:s1, B:s3} gives none.
C3_DiffYieldsMissingOrStale ==
    (df_run.ran /\ ~df_run.raised) =>
       /\ \A i \in BagToSet(df_run.index) :
             EventsFor(i, df_run.events) # {}
                <=> \/ DetailsOf(i, df_run.details) = {}
                    \/ \E d \in DetailsOf(i, df_run.details) :
                          d.index_row_signature # i.row_signature
       /\ \A k \in 1..Len(df_run.events) :
             \E i \in BagToSet(df_run.index) : df_run.events[k] = DiffSelect(i)
       /\ \A t, u \in {1, 2} :
             df_run.index = SetToBag({Row("A", "s1", NULL, t), Row("B", "s3", NULL, u)}) =>
                /\ df_run.details = SetToBag({Row("A", "d", "s1", 3)})
                      => df_run.events = <<DiffSelect(Row("B", "s3", NULL, u))>>
                /\ df_run.details = SetToBag({Row("A", "d", "s1", 3), Row("B", "d", "s3", 3)})
                      => df_run.events = <<>>

C3_Witness ==
    /\ df_run.ran
    /\ df_run.index = SetToBag({Row("A", "s1", NULL, 1), Row("B", "s3", NULL, 2)})
    /\ df_run.details = SetToBag({Row("A", "d", "s1", 3)})
    /\ Len(df_run.events) = 1
    /\ df_run.events[1].company_number = "B"
    /\ bq_rows["company_details"]
          = SetToBag({Row("A", "d", "s1", 3), Row("B", "d", "s3", 3)})

(***************************************************************************)
(* Properties of the change consumer (SpecSub)                               *)
(***************************************************************************)
\* the step ends a delivery: the handler answers
SbAnswers ==
    \/ sb_pc = "idle" /\ sb_pc' = "idle" /\ sb_count' = sb_count + 1
    \/ sb_pc = "fetch" /\ sb_pc' = "idle"

\* the answered delivery fetched a record at its first request
FetchedFresh(answer) ==
    /\ answer.requests = 1
    /\ answer.outcome \notin {"absent", "fetch_raised"}

\* C1: when the same change event is delivered twice, with nothing else
\* stored in the detail table, the first delivery fetches and writes exactly
\* one detail entry carrying the event's index_row_signature, the second
\* finds the identifier up to date and fetches nothing, and both answer
\* success.
C1_SecondDeliveryIsNoOp ==
    [][(/\ SbAnswers
        /\ sb_answer.event \in SbEvents
        /\ sb_answer'.event = sb_answer.event
        /\ FetchedFresh(sb_answer)
        /\ BagToSet(bq_rows'["company_details"]) \subseteq {SbDetailRow(sb_answer.event)})
       => /\ sb_answer.status = 200
          /\ sb_answer'.status = 200
          /\ sb_answer.inserted = 1
          /\ sb_answer'.inserted = 0
          /\ sb_answer'.requests = 0
          /\ sb_answer'.outcome = "up_to_date"]_vars

\* C11: a "not found" answer ends fetch_company_detail at once: it is the
\* last request, the call returns the absent value without raising, and no
\* sleep follows it, however many failed requests came before it.
C11_NotFoundReturnsAbsentAtOnce ==
    \A k \in 1..Len(fd_requests) :
       fd_requests[k] = "404" =>
          /\ k = Len(fd_requests)
          /\ fd_pc = "returned"
          /\ fd_result = "absent"
          /\ \A j \in 1..Len(fd_sleeps) : fd_sleeps[j].after < k

C11_Witness ==
    /\ fd_requests = <<"429", "error", "404">>
    /\ Len(fd_sleeps) = 2
    /\ fd_pc = "returned"
    /\ fd_result = "absent"

\* the row's signature was in the table when writer 1 was called
PresentAtCheck(r) ==
    \E x \in BagToSet(wr[1].pre) : x.row_signature = r.row_signature

RECURSIVE SumSizes(_)
SumSizes(batches) ==
    IF batches = <<>> THEN 0 ELSE Head(batches).size + SumSizes(Tail(batches))

\* C17: once the existence check is done, the rows to write are exactly the
\* input rows whose signature the target did not hold, in input order; the
\* others are counted in skipped and add no error; no row whose signature the
\* target held is ever written; and when the call returns every row to write
\* has been handed to a batch.
C17_DuplicatesSkippedNewRowsBatched ==
    wr[1].pc \in {"insert", "returned"} =>
       /\ wr[1].to_insert = SelectSeq(wr[1].rows, LAMBDA r : ~PresentAtCheck(r))
       /\ wr[1].result.skipped
             = Len(SelectSeq(wr[1].rows, LAMBDA r : PresentAtCheck(r)))
       /\ \A k \in 1..Len(wr[1].rows) :
             PresentAtCheck(wr[1].rows[k]) =>
                CopiesIn(wr[1].rows[k], bq_rows[wr[1].table_name])
                   = CopiesIn(wr[1].rows[k], wr[1].pre)
       /\ wr[1].to_insert = <<>> => wr[1].result.errors = <<>> /\ wr[1].batches = <<>>
       /\ Len(wr[1].result.errors) > 0 => \E b \in Range(wr[1].batches) : ~b.ok
       /\ wr[1].pc = "returned" => SumSizes(wr[1].batches) = Len(wr[1].to_insert)

C17_Witness ==
    /\ wr[1].pc = "returned"
    /\ wr[1].result.skipped = 2
    /\ wr[1].result.inserted = 1
    /\ wr[1].result.errors = <<>>
    /\ Len(wr[1].rows) = 3

\* the detail table holds the event's index_row_signature for its identifier
Current(msg, details) ==
    \E r \in BagToSet(details) :
       /\ r.company_number = msg.company_number
       /\ r.index_row_signature = msg.index_row_signature

\* C12: a delivery whose event's index_row_signature the detail table holds
\* for the event's identifier, among however many entries for it, is answered
\* with success at once, without a detail request and without a write.
C12_CurrentEventAcksWithoutFetch ==
    [][(/\ sb_pc = "idle"
        /\ sb_count' = sb_count + 1
        /\ LET msg == IF sb_pc' = "fetch" THEN sb_msg' ELSE sb_answer'.event
           IN msg \in SbEvents /\ Current(msg, bq_rows["company_details"]))
       => /\ sb_pc' = "idle"
          /\ sb_answer'.status = 200
          /\ sb_answer'.requests = 0
          /\ sb_answer'.inserted = 0
          /\ bq_rows' = bq_rows]_vars

\* C13: a delivery that carried an event is answered 500 when the up-to-date
\* query, the detail fetch or the normalization raised or the writer reported
\* an error, and 200 when none of these happened; it is answered nothing else.
C13_RetryIffFailure ==
    sb_answer.event \in SbEvents =>
       /\ sb_answer.status \in {200, 500}
       /\ sb_answer.status = 500
             <=> sb_answer.outcome \in {"query_failed", "fetch_raised",
                                        "TypeError", "insert_errors"}
       /\ sb_answer.status = 200
             <=> sb_answer.outcome \in {"up_to_date", "absent", "written"}
       /\ sb_answer.outcome = "fetch_raised"
             => sb_answer.requests = fd_max_retries_default

C13_Witness ==
    /\ sb_answer.event \in SbEvents
    /\ sb_answer.outcome = "fetch_raised"
    /\ sb_answer.status = 500
    /\ sb_count = 2

\* C14: a delivery whose envelope is malformed is answered with a 4xx status
\* and never with a 5xx one, and no detail request and no write is made for it.
C14_MalformedEnvelopeIsClientError ==
    /\ (sb_answer.outcome # "none" /\ sb_answer.event \notin SbEvents)
          => /\ sb_answer.status \in 400..499
             /\ sb_answer.requests = 0
             /\ sb_answer.inserted = 0
    /\ sb_pc = "fetch" => sb_msg \in SbEvents

\* C15: when fetch_company_detail returns the absent value the handler
\* answers 200 for that event and writes nothing.
C15_AbsentAcksAndWritesNothing ==
    [][(/\ sb_pc = "fetch"
        /\ fd_pc = "returned"
        /\ fd_result = "absent"
        /\ sb_pc' = "idle")
       => /\ sb_answer'.event = sb_msg
          /\ sb_answer'.status = 200
          /\ sb_answer'.inserted = 0
          /\ bq_rows' = bq_rows]_vars

C15_Witness ==
    /\ sb_answer.event \in SbEvents
    /\ sb_answer.outcome = "absent"
    /\ sb_answer.status = 200
    /\ sb_answer.requests = 2
    /\ bq_rows["company_details"] = EmptyBag

ConfirmedEvents == SelectSeq(pb_channel, LAMBDA c : c.state = "confirmed")

\* C18: a run that returns has emitted min(limit, number of diff rows)
\* events when a limit was given, and one event per diff row when none was,
\* and returns that number.
C18_PublishesMinOfLimitAndDiff ==
    pb_pc = "returned" =>
       LET n == Len(pb_rows)
           expected == IF pb_limit = <<>> THEN n ELSE Min(pb_limit[1], n)
       IN /\ pb_result = expected
          /\ Len(ConfirmedEvents) = expected
          /\ Len(pb_channel) = expected

\* C19: an event the channel failed to confirm is the last one of the run:
\* the run has raised, no later diff row was handed to the channel, and the
\* events before it are all still there, confirmed.
C19_ChannelFailureAbortsRun ==
    \A k \in 1..Len(pb_channel) :
       pb_channel[k].state = "failed" =>
          /\ k = Len(pb_channel)
          /\ pb_pc = "raised"
          /\ pb_count = k - 1
          /\ \A j \in 1..(k - 1) :
                /\ pb_channel[j].state = "confirmed"
                /\ pb_channel[j].event = Payload(pb_rows[j])

C19_Witness ==
    /\ pb_pc = "raised"
    /\ Len(pb_channel) = 2
    /\ pb_channel[1].state = "confirmed"
    /\ pb_channel[2].state = "failed"
    /\ Len(pb_rows) = 4

\* C20: the events handed to the channel are the diff rows' events in the
\* order the query returned them, and only the last one handed over can be
\* unconfirmed, while the run waits for it.
C20_PublishesInDiffOrderOneAtATime ==
    /\ Len(pb_channel) <= Len(pb_rows)
    /\ \A k \in 1..Len(pb_channel) :
          /\ pb_channel[k].event = Payload(pb_rows[k])
          /\ pb_channel[k].state = "pending"
                => k = Len(pb_channel) /\ pb_pc = "await"

C20_Witness ==
    /\ Len(pb_channel) = 3
    /\ pb_channel[1].state = "confirmed"
    /\ pb_channel[2].state = "confirmed"
    /\ pb_channel[3].state = "pending"
    /\ pb_channel[1].event # pb_channel[2].event
    /\ pb_channel[1].event.date_indexed # pb_channel[3].event.date_indexed

(***************************************************************************)
(* Further properties of the diff detector (SpecDiff)                        *)
(***************************************************************************)
\* C21: the events of one diff run come most-recently-indexed first: of any
\* two events, the one with the later date_indexed is not after the other.
C21_EventsMostRecentFirst ==
    (df_run.ran /\ ~df_run.raised) =>
       \A j, k \in 1..Len(df_run.events) :
          df_run.events[j].date_indexed > df_run.events[k].date_indexed => j < k

C21_Witness ==
    /\ df_run.ran
    /\ Len(df_run.events) = 2
    /\ df_run.events[1].date_indexed = 2
    /\ df_run.events[2].date_indexed = 1
    /\ df_run.events[1].company_number = "B"

(***************************************************************************)
(* Further properties of pagination (SpecPage)                               *)
(***************************************************************************)
\* the number of items in the pages yielded before request number r was sent
RECURSIVE YieldedBefore(_, _)
YieldedBefore(k, r) ==
    IF k = 0 THEN 0
    ELSE (IF pg_yielded[k].req < r THEN pg_yielded[k].n ELSE 0) + YieldedBefore(k - 1, r)

\* C22: every request's offset is the number of items in the pages yielded
\* before it, so a retry asks for the same offset again, yielded pages have
\* strictly ascending offsets, and each yielded page starts where the one
\* before it ended.
C22_OffsetIsItemsYielded ==
    /\ \A r \in 1..Len(pg_requests) :
          pg_requests[r].off = YieldedBefore(Len(pg_yielded), r)
    /\ \A r \in 1..(Len(pg_requests) - 1) :
          pg_requests[r].resp \in {"429", "error"}
             => pg_requests[r + 1].off = pg_requests[r].off
    /\ \A k \in 1..Len(pg_yielded) :
          /\ pg_yielded[k].off = pg_requests[pg_yielded[k].req].off
          /\ k > 1 => pg_yielded[k].off = pg_yielded[k - 1].off + pg_yielded[k - 1].n
          /\ k > 1 => pg_yielded[k].off > pg_yielded[k - 1].off

C22_Witness ==
    /\ Len(pg_requests) = 5
    /\ pg_requests[1].resp = "ok"
    /\ pg_requests[2].resp = "429"
    /\ pg_requests[3].resp = "error"
    /\ pg_requests[4].resp = "ok"
    /\ pg_requests[4].off = items_per_page
    /\ pg_requests[5].off = 2 * items_per_page
    /\ Len(pg_yielded) = 2

\* the unsuccessful requests in a row just before request number r
FailuresBefore(r) == TrailingFailures(SubSeq(pg_requests, 1, r - 1))

\* C23: every backoff delay is the base delay times two to the power of the
\* consecutive-error count, capped at the ceiling; a successful response
\* resets the count, so the first failure after a success gets the delay of a
\* first failure and only failures since that success count against the
\* retry budget.
C23_BackoffExponentialCappedAndReset ==
    /\ \A k \in 1..Len(pg_sleeps) :
          LET s == pg_sleeps[k]
              c == FailuresBefore(s.after)
          IN /\ s.kind = "rate" => s.dur = Min(BackoffCeiling, (2 ^ c) * pg_sleep_sec)
             /\ s.kind = "backoff"
                   => s.dur = Min(BackoffCeiling, (2 ^ (c + 1)) * pg_sleep_sec)
             /\ s.kind \in {"rate", "backoff"} => s.dur <= BackoffCeiling
    /\ (pg_requests # <<>> /\ pg_requests[Len(pg_requests)].resp = "ok")
          => consecutive_errors = 0
    /\ pg_pc = "request" => consecutive_errors = TrailingFailures(pg_requests)
    /\ (/\ pg_requests # <<>>
        /\ pg_requests[Len(pg_requests)].resp = "error"
        /\ TrailingFailures(pg_requests) < pg_max_retries)
       => pg_pc = "request"

C23_Witness ==
    /\ pg_max_retries = 3
    /\ pg_sleep_sec = 80
    /\ Len(pg_requests) = 4
    /\ pg_requests[1].resp = "error"
    /\ pg_requests[2].resp = "ok"
    /\ pg_requests[3].resp = "429"
    /\ pg_requests[4].resp = "error"
    /\ pg_pc = "request"
    /\ Len(pg_sleeps) = 4
    /\ pg_sleeps[3].dur = 80
    /\ pg_sleeps[4].dur = BackoffCeiling

(***************************************************************************)
(* Pagination against the detail fetch (SpecBackoff)                         *)
(***************************************************************************)
PgRateDelays(k) ==
    {s.dur : s \in {x \in Range(pg_sleeps) : x.kind = "rate" /\ x.after = k}}
FdDelays(k) == {s.dur : s \in {x \in Range(fd_sleeps) : x.after = k}}

\* C24: when both operations, run with the same base delay and budget, are
\* answered 429 k times in a row from their start, the k-th 429 is followed
\* by the same delay in both, and after it either both have given up or both
\* go on.
C24_DetailBacksOffLikePagination ==
    \A k \in 1..MaxRequests :
       (/\ Len(pg_requests) >= k /\ Len(fd_requests) >= k
        /\ \A j \in 1..k : pg_requests[j].resp = "429" /\ fd_requests[j] = "429")
       => /\ PgRateDelays(k) = FdDelays(k)
          /\ (Len(pg_requests) = k /\ Len(fd_requests) = k)
                => (pg_pc = "done" <=> fd_pc = "raised")

(***************************************************************************)
(* Properties of the index sweep (SpecIndex)                                 *)
(***************************************************************************)
\* the rows of the first k pages the generator yielded
RECURSIVE RowsOfPages(_)
RowsOfPages(k) ==
    IF k = 0 THEN 0
    ELSE Len(ItemsFrom(ix.source, pg_yielded[k].off, pg_yielded[k].n)) + RowsOfPages(k - 1)

\* the second sweep has so far only seen pages that the first sweep wrote
\* without a write error
SecondSweepOverSamePages ==
    /\ ix.run = 2
    /\ ix.prev.result = IxOk
    /\ ix.page_no <= ix.prev.page_no

\* C25: a second index sweep over pages that the first sweep stored writes
\* nothing: every row is skipped, no batch is sent and the index table is what
\* it was when the second sweep began, although its rows carry a later
\* date_indexed.
C25_SecondSweepIsNoOp ==
    SecondSweepOverSamePages =>
       /\ bq_rows["company_index"] = ix.before
       /\ ix.inserted_total = 0
       /\ wr[1].batches = <<>> /\ wr[1].to_insert = <<>>
       /\ ix.pc = "next" => ix.skipped_total = RowsOfPages(ix.page_no)
       /\ (ix.pc = "returned" /\ ix.result = IxOk)
             => ix.skipped_total = RowsOfPages(ix.page_no)
       /\ ix.pc = "returned" => ix.result.body # "errors"

C25_Witness ==
    /\ SecondSweepOverSamePages
    /\ ix.pc = "returned"
    /\ ix.page_no = 2
    /\ ix.skipped_total = 3
    /\ \A r \in BagToSet(bq_rows["company_index"]) : r.date_indexed = 1
    /\ BagCardinality(bq_rows["company_index"]) = 3
    /\ ix.now = 2

\* an error occurred during the sweep: a write reported errors, a call
\* raised, or pagination gave up on an exhausted retry budget
IxErrorOccurred == ix.write_errors \/ ix.raised \/ ix.exhausted

\* C26: a sweep during which an error occurred answers with a failed status
\* carrying the errors or a message, never with plain success.
C26_ErrorsNeverReportSuccess ==
    (ix.pc = "returned" /\ IxErrorOccurred) =>
       /\ ix.result.status \in {"partial", "error"}
       /\ ix.result.body \in {"errors", "message"}
       /\ ix.result.code # 200

\* C27: a page whose write reported errors does not end the sweep: the
\* sweep goes on to ask for the next page.
C27_WriteErrorsDoNotAbort ==
    [][(ix.pc = "write" /\ wr[1].pc = "returned" /\ wr[1].result.errors # <<>>
        /\ ix'.pc # "write")
       => ix'.pc = "next"]_vars

(***************************************************************************)
(* Properties of the pipeline over shared tables (SpecPipeline)              *)
(***************************************************************************)
\* C28: no step of the writer, the diff query, the publisher or the consumer
\* removes or changes a stored row or drops a table: both tables only grow,
\* the diff query and the publisher leave both as they are, and the consumer
\* leaves the index table as it is.
C28_CollectionsOnlyGrow ==
    [][/\ \A t \in TableConfigKeys : bq_rows[t] \sqsubseteq bq_rows'[t]
       /\ bq_exists \subseteq bq_exists'
       /\ (df_run' # df_run \/ pbVars' # pbVars) => bq_rows' = bq_rows
       /\ sbVars' # sbVars => bq_rows'["company_index"] = bq_rows["company_index"]]_vars

C28_Witness ==
    /\ BagCardinality(bq_rows["company_index"]) = 3
    /\ BagCardinality(bq_rows["company_details"]) = 2
    /\ pb_pc = "returned"
    /\ Len(pb_channel) >= 2

(***************************************************************************)
(* Unknown table names (SpecTarget)                                          *)
(***************************************************************************)
\* C29: a call of the normalizer or of the writer that names a table the
\* configuration does not have raises, and nothing else happens: no table is
\* created, no existence query is made, no row is written and no row is
\* returned.
C29_UnknownTargetRejectedFirst ==
    [][/\ (wr[1].pc = "idle" /\ wr'[1].pc # "idle"
           /\ wr'[1].table_name \notin TableConfigKeys)
          => /\ wr'[1].pc = "raised"
             /\ wr'[1].existing = {} /\ wr'[1].batches = <<>>
             /\ bqVars' = bqVars
       /\ wr[1].pc = "raised" => (wr'[1].pc \in {"raised", "idle"} /\ bqVars' = bqVars)
       /\ (nm_now' # nm_now /\ nm_target \notin TableConfigKeys)
          => (nm_raised' /\ nm_row' = nm_row /\ bqVars' = bqVars)]_vars

C29_Witness ==
    /\ wr[1].pc = "raised"
    /\ wr[1].rows # <<>>
    /\ nm_raised
    /\ bq_exists = {"company_index"}
    /\ bq_rows["company_index"] # EmptyBag

(***************************************************************************)
(* Events of the diff against the detail table (SpecDiff)                    *)
(***************************************************************************)
\* C30: no event of a diff run names an identifier and an index signature
\* that the detail table it read already holds together in one entry.
C30_EventsNotYetReflected ==
    (df_run.ran /\ ~df_run.raised) =>
       \A k \in 1..Len(df_run.events) :
          ~\E d \in BagToSet(df_run.details) :
              /\ d.company_number = df_run.events[k].company_number
              /\ d.index_row_signature = df_run.events[k].index_row_signature

(***************************************************************************)
(* Overlapping invocations of the dedup writer (SpecOverlap)                 *)
(***************************************************************************)
\* how many rows of a table carry the signature
HeldWith(sig, table) ==
    BagCardinality([r \in {x \in BagToSet(table) : x.row_signature = sig} |-> table[r]])

ToInsertSigs(c) == {c.to_insert[k].row_signature : k \in 1..Len(c.to_insert)}

\* both invocations have returned without an error after each found the
\* signature absent
BothWrote(sig) ==
    /\ \A p \in Writers : wr[p].pc = "returned" /\ wr[p].result.errors = <<>>
    /\ \A p \in Writers : sig \in ToInsertSigs(wr[p])

\* C31: nothing serializes the existence check and the write of two
\* invocations: when both found a signature absent and both returned without
\* an error, the table holds that signature at least twice; and whatever the
\* interleaving, every row the table held when an invocation started is
\* still there, as it was.
C31_OverlappingWritesDuplicate ==
    /\ \A sig \in Sigs : BothWrote(sig) => HeldWith(sig, bq_rows["company_index"]) >= 2
    /\ \A p \in Writers :
          wr[p].pc \in {"check", "insert", "returned"}
             => wr[p].pre \sqsubseteq bq_rows[wr[p].table_name]

C31_Witness ==
    /\ BothWrote("s1")
    /\ \A p \in Writers : wr[p].rows = <<Row("A", "s1", NULL, 0)>>
    /\ wr[1].pre = EmptyBag
    /\ wr[2].pre = EmptyBag
    /\ HeldWith("s1", bq_rows["company_index"]) = 2

(***************************************************************************)
(* The change cycle over a settled source (SpecCycle)                        *)
(***************************************************************************)
\* C32: with the source settled, the services reliable and every published
\* event pushed to the consumer, round after round, the diff query
\* eventually returns no event and goes on returning none; also when the
\* index entry of a company was stored again under a changed signature.
C32_CycleConverges ==
    <>[](DiffRows(bq_rows["company_index"], bq_rows["company_details"]) = EmptyBag)

(***************************************************************************)
(* Calls of the dedup writer one after the other (SpecWriter)                *)
(***************************************************************************)
\* C33: with one call of the writer at a time on a table that was empty at
\* first, the table never holds two rows of one row_signature, whatever the
\* calls were given, rows of equal signature within one call included.
C33_AtMostOneRowPerSignature ==
    \A t \in TableConfigKeys : \A sig \in Sigs : HeldWith(sig, bq_rows[t]) <= 1

\* C34: once the existence check of a call is done, skipped is the number of
\* input rows whose signature the table held when the call began, and it
\* stays that; when the call returns, inserted is the sum of the sizes of
\* the batches written without an error, inserted + skipped is at most the
\* number of input rows, and equal to it exactly when errors is empty.
C34_CountsAddUp ==
    LET c == wr[1]
        dup == Len(SelectSeq(c.rows, LAMBDA r : PresentAtCheck(r)))
    IN /\ c.pc \in {"insert", "returned"} => c.result.skipped = dup
       /\ c.pc = "returned" =>
             /\ c.result.inserted = WrittenIn(c.batches)
             /\ c.result.inserted + c.result.skipped <= Len(c.rows)
             /\ (c.result.inserted + c.result.skipped = Len(c.rows))
                   <=> (c.result.errors = <<>>)

C34_Witness ==
    /\ wr[1].pc = "returned"
    /\ Len(wr[1].rows) = 3
    /\ wr[1].result.skipped = 2
    /\ wr[1].result.inserted = 0
    /\ wr[1].result.errors # <<>>

(***************************************************************************)
(* The page limit of the index sweep (SpecIndex)                             *)
(***************************************************************************)
\* C35: an index sweep with max_pages = k >= 1 takes at most k pages from
\* the generator; once it has taken the k-th, the generator stays suspended
\* at that yield: no search request and no delay follows it; and the sweep
\* answers only after the k-th page went through the writer whole.
C35_PageLimitStopsSweep ==
    (/\ ix.pc \notin {"idle", "start"}
     /\ ~ix.raised
     /\ ix.max_pages # <<>>
     /\ ix.max_pages[1] >= 1) =>
       LET k == ix.max_pages[1] IN
       /\ ix.page_no <= k
       /\ Len(pg_yielded) <= k
       /\ ix.page_no = k =>
             /\ pg_pc = "yielded"
             /\ Len(pg_requests) = pg_yielded[k].req
             /\ \A j \in 1..Len(pg_sleeps) : pg_sleeps[j].after < pg_yielded[k].req
       /\ (ix.pc = "returned" /\ ix.result = IxOk /\ ix.page_no = k) =>
             /\ wr[1].pc = "idle"
             /\ ix.inserted_total + ix.skipped_total = RowsOfPages(k)

C35_Witness ==
    /\ ix.pc = "returned"
    /\ ix.result = IxOk
    /\ ix.max_pages = <<1>>
    /\ ix.page_no = 1
    /\ ix.source.total > items_per_page
    /\ pg_yielded[1].n = items_per_page
    /\ ix.inserted_total = 2

(***************************************************************************)
(* The two push handlers given the same delivery (SpecRoutes)                *)
(***************************************************************************)
\* 2xx, 4xx or 5xx
StatusClass(status) == status \div 100

\* as far as both handlers asked the detail API, it answered them alike
SameApiAnswers(f, g) ==
    \A k \in 1..Min(Len(f), Len(g)) : f[k] = g[k]

\* C38: the /subscriber route of app.py and the push handler of
\* subscriber.py, given the same delivery over the same detail table and a
\* detail API that answers both alike, answer in the same class of status,
\* make the same detail requests and write the same number of detail rows.
C38_RoutesClassifyAlike ==
    (/\ ap.pc = "answered"
     /\ sb_answer.inserted = 0
     /\ SameApiAnswers(ap.fetch, ap.sb_fetch)) =>
       /\ StatusClass(ap.answer.status) = StatusClass(sb_answer.status)
       /\ ap.fetch = ap.sb_fetch
       /\ ap.answer.inserted = sb_answer.inserted

=============================================================================
